---- MODULE Spec2Model ----
(***************************************************************************)
(* Model of the khaleej-job-pipeline: the JSON-file record store           *)
(* (src/src/utils/database.py) and the three-phase pipeline orchestrator.  *)
(* The repository holds two JobPipeline classes, src/src/job_pipeline.py   *)
(* (the one the entry point src/main.py imports) and src/src/main.py; the  *)
(* variable "variant" says which of the two is running.                    *)
(***************************************************************************)
EXTENDS Integers, Sequences, FiniteSets, TLC

\* ---------------------------------------------------------------- bounds
MaxUrls == 3
\* runs and direct store calls of one behaviour, taken together
MaxRuns == 2
MaxBatch == 2
\* listing pages of the source site
MaxPages == 2
\* entries of a raw file that holds foreign entries
MaxEntries == 3
\* items of a list the extraction step gives, and characters of an item
MaxItems == 2
MaxChars == 2

URLS == 1..MaxUrls

\* publish window of _publish_new_jobs: processed_jobs_data[:10]
PublishWindow == 10

\* ScrapingConfig
max_retries == 5
retry_delay == 8

VARIABLES
  variant,              \* "job_pipeline" | "main": the JobPipeline class in use
  faulty,               \* TRUE while a read of a store file may fail: one step of a
                        \* behaviour has failing reads (FALSE in Spec, SpecStore)
  write_faulty,         \* TRUE while a write of a store file may fail, likewise
  jobs_file,            \* content of config.jobs_file: list of raw job dicts
  processed_jobs_file,  \* content of config.processed_jobs_file
  pc,                   \* position of the orchestrator thread
  run_no,               \* number of runs started (stands for datetime.now())
  new_urls,             \* _scrape_new_jobs: all_urls - existing_urls
  pending,              \* _scrape_new_jobs: URLs of new_urls not yet iterated
  new_jobs,             \* _scrape_new_jobs: list of fetched RawJobData
  new_job_count,        \* run_pipeline: result of phase 1
  unprocessed_jobs,     \* _process_new_jobs: list from get_unprocessed_jobs
  i,                    \* loop index of phase 2 / phase 3
  processed_count,      \* result of phase 2
  jobs_to_publish,      \* _publish_new_jobs: candidate list
  published_count,      \* result of phase 3
  result,               \* return value of run_pipeline: <<>> is None, <<d>> a dict
  phases,               \* history: phases entered by the current run, in order
  raw_at_start,         \* history: jobs_file when the current run started
  proc_at_start,        \* history: processed_jobs_file when the run started
  p2_log,               \* history: per record of phase 2, whether stored, its id, and
                        \* whether time.sleep(2) was reached after it
  extract_failures,     \* history: records of the run for which process_job gave nothing
  publish_calls,        \* history: create_blog_post calls of the current run
  html_failures,        \* history: candidates of the run whose HTML came out empty
  api_log,              \* history: direct add_raw_jobs calls in a row
  api_calls,            \* history: number of direct calls (add_raw_jobs, close_driver) so far
  appended,             \* history: URLs handed to add_processed_job, oldest first
  published_through,    \* history: length of "appended" when a phase 3 last published
                        \* every record of a full window of candidates (0: never)
  driver,               \* blogger_publisher.driver: TRUE a browser session, FALSE None
  interrupted,          \* a KeyboardInterrupt is on its way up through run_pipeline
  phase_error,          \* history: an exception of this run reached the
                        \* "except Exception" clause of a phase function
  gemini_data,          \* validate_and_normalize: the attribute bag handed in
  validation_result,    \* validate_and_normalize: <<>> is None, <<r>> a record
  previous_status,      \* history: the status run_job_pipeline returned for the run
                        \* before the current one ("none": there was no such run)
  raw_file_written,     \* history: save_raw_jobs was called by the last add_raw_jobs
                        \* step (of phase 1, or of a direct call) since the run began
  main_pc,              \* position of main(): "scheduling" (the initial execution
                        \* and the scheduler loop), "retry_wait", "returned";
                        \* before them "startup" and "configured"
  exit_code,            \* return value of main(): << >> while it has not returned
  gemini_api_key,       \* config.processing.gemini_api_key
  existing_urls,        \* _scrape_new_jobs: the set get_existing_urls returned
  executor,             \* scrape_job_urls: the ThreadPoolExecutor: "none" (not
                        \* created), "running" (inside the with block), "shutdown"
  futures,              \* scrape_job_urls: per page the task submitted to the pool:
                        \* state "submitted", "done" or "raised", and the URL set
                        \* a done task returned
  completed,            \* as_completed: the pages in the order their tasks ended
  taken,                \* as_completed: number of futures the loop has handled
  all_urls,             \* scrape_job_urls: the accumulated set of URLs
  request_pc,           \* _make_request: "idle" (no call), "get" (session.get is
                        \* next), "sleep", "returned", "raised"
  retries,              \* _make_request: the retries argument of the current call
  response,             \* _make_request: what the last session.get gave, << >>
                        \* before the first
  returned,             \* _make_request: <<value>> once it has returned
  attempts,             \* history: session.get calls of the request
  waited,               \* history: seconds the request has slept
  employment_code,      \* the string gemini_data['employmentType'] holds when it
                        \* holds a non-empty string
  employment,           \* << >>, or <<[employment_type, app_type]>> of the record
                        \* the last call of the validator built
  minSalary,            \* gemini_data['minSalary'] and
  maxSalary,            \* gemini_data['maxSalary']: what the extraction step gave
  salary,               \* << >>, or the pair _normalize_salary returned last
  field,                \* the list-valued field of gemini_data under study
  field_data,           \* gemini_data[field]: what the extraction step gave
  json_field,           \* << >>, or the text stored for the field in the record,
                        \* character by character
  date_posted,          \* the date and hour _normalize_date_posted made of scraped_at
  deadLine,             \* gemini_data.get('deadLine'): the deadline as the
                        \* extraction step gave it
  valid_through,        \* << >>, or date and time of the valid_through that
                        \* _calculate_deadline returned
  processed_data,       \* enrich_job_data: the dict it is called with, as far as
                        \* it looks at it
  place_info,           \* enrich_job_data: whether get_place_info was called, and
                        \* <<what it returned>>, << >> standing for None
  enriched,        \* << >>, or <<the dict enrich_job_data returned>>
  post_pc               \* create_blog_post: "idle" (not inside it, or not at the
                        \* wait for the editor), "editor_click", "editor_sleep",
                        \* "editor_ready"

vars == <<variant, faulty, write_faulty, jobs_file, processed_jobs_file, pc, run_no, new_urls,
          pending, new_jobs, new_job_count, unprocessed_jobs, i,
          processed_count, jobs_to_publish, published_count, result, phases,
          raw_at_start, proc_at_start, p2_log, extract_failures, publish_calls,
          html_failures, api_log, api_calls, appended, published_through,
          driver, interrupted, phase_error, gemini_data, validation_result,
          previous_status, raw_file_written, main_pc, exit_code, gemini_api_key,
          existing_urls, executor, futures, completed, taken, all_urls,
          request_pc, retries, response, returned, attempts, waited,
          employment_code, employment, minSalary, maxSalary, salary,
          field, field_data, json_field, date_posted, deadLine, valid_through,
          processed_data, place_info, enriched, post_pc>>

\* ----------------------------------------------------------- small helpers
Max(S) == CHOOSE m \in S : \A x \in S : x <= m

Range(s) == {s[k] : k \in DOMAIN s}

Urls(jobs) == {jobs[k].url : k \in DOMAIN jobs}

\* a publish window of one record
Head1(s) == SubSeq(s, 1, IF Len(s) < 1 THEN Len(s) ELSE 1)

\* a publish window that takes the 10 entries at the end of the list
Tail10(s) == SubSeq(s, IF Len(s) < PublishWindow THEN 1 ELSE Len(s) - PublishWindow + 1, Len(s))

\* a publish window that leaves out the records up to the last one known
\* to be published
Head10_unpublished(s) ==
  LET open == SubSeq(s, 1, Len(s) - published_through)
  IN  SubSeq(open, 1, IF Len(open) < PublishWindow THEN Len(open) ELSE PublishWindow)

\* a publish step that takes every record of the processed store
HeadAll(s) == s

Head10(s) == SubSeq(s, 1, IF Len(s) < PublishWindow THEN Len(s) ELSE PublishWindow)

\* outcomes of one read of a store file: TRUE the file is read, FALSE the
\* read raises and the loader returns []
ReadOK == IF faulty THEN BOOLEAN ELSE {TRUE}

\* outcomes of one write of a store file: the file is written; open() fails
\* and the file stays as it was; or the file is opened, which empties it,
\* and json.dump fails, which leaves a file that no later read can decode
WriteOutcomes == {"written", "not_opened", "truncated"}

WriteOK == IF write_faulty THEN WriteOutcomes ELSE {"written"}

\* RawJobData as far as the store and the orchestrator look at it
RawJobData(u, t) == [url |-> u, scraped_at |-> t]

\* the fields of RawJobData that the model carries; all of them are
\* required by the constructor
RawJobDataFields == {"url", "scraped_at"}

\* RawJobData(**job_dict) raises TypeError when a required field is missing
\* or a key is not a field
decodes(job_dict) == DOMAIN job_dict = RawJobDataFields

\* job_dict.get(key, default) on an entry of a store file
dict_get(d, key, default) == IF key \in DOMAIN d THEN d[key] ELSE default

\* a validator that numbers the records itself
ProcessedJobData_numbered(u) == [url |-> u, job_value_id |-> 1]

\* ProcessedJobData as the validator returns it: job_value_id is None (0)
ProcessedJobData(u) == [url |-> u, job_value_id |-> 0]

\* ------------------------------------------------------------ JobDatabase
load_raw_jobs(ok) == IF ok THEN jobs_file ELSE << >>

load_processed_jobs(ok) == IF ok THEN processed_jobs_file ELSE << >>

\* the content of the raw file after save_raw_jobs(jobs): a file that cannot
\* be decoded reads as [] in load_raw_jobs, and is kept as << >>
save_raw_jobs(jobs, w) ==
  IF w = "written" THEN jobs ELSE IF w = "not_opened" THEN jobs_file ELSE << >>

save_processed_jobs(jobs, w) ==
  IF w = "written" THEN jobs ELSE IF w = "not_opened" THEN processed_jobs_file ELSE << >>

\* URLs in the model are non-empty strings, so the "if job.get('url')"
\* filter keeps every entry
get_existing_urls(ok) == Urls(load_raw_jobs(ok))

get_processed_urls(ok) == Urls(load_processed_jobs(ok))

\* add_raw_jobs: the new records whose URL is not in the store
new_job_dicts(batch, ok) ==
  LET existing == Urls(load_raw_jobs(ok))
      Fresh(j) == j.url \notin existing
  IN  SelectSeq(batch, Fresh)

\* a store that writes only the new records, losing the ones it had
add_raw_jobs_only_new(batch, ok) == new_job_dicts(batch, ok)

\* add_raw_jobs: the list handed to save_raw_jobs (new records first)
add_raw_jobs(batch, ok) == new_job_dicts(batch, ok) \o load_raw_jobs(ok)

\* a store that writes the new record alone, losing the ones it had
add_processed_job_replace(job, ok) == <<job>>

\* add_processed_job: the list handed to save_processed_jobs
add_processed_job(job, ok) == <<job>> \o load_processed_jobs(ok)

\* an id allocator that returns the highest id instead of the one after it
get_next_job_id_no_increment(ok) ==
  LET processed_jobs == load_processed_jobs(ok)
  IN  IF processed_jobs = << >> THEN 1
      ELSE Max({0} \cup {processed_jobs[k].job_value_id : k \in DOMAIN processed_jobs})

\* an id allocator that leaves a gap after the highest id
get_next_job_id_skip(ok) ==
  LET processed_jobs == load_processed_jobs(ok)
  IN  IF processed_jobs = << >> THEN 1
      ELSE Max({0} \cup {processed_jobs[k].job_value_id : k \in DOMAIN processed_jobs}) + 2

get_next_job_id(ok) ==
  LET processed_jobs == load_processed_jobs(ok)
  IN  IF processed_jobs = << >> THEN 1
      ELSE Max({0} \cup {processed_jobs[k].job_value_id : k \in DOMAIN processed_jobs}) + 1

\* an unprocessed list that forgets to leave out the processed URLs
get_unprocessed_jobs_unfiltered(rok, pok) == load_raw_jobs(rok)

\* an unprocessed list that hands on every open entry as it is in the file
get_unprocessed_jobs_undecoded(rok, pok) ==
  LET processed_urls == get_processed_urls(pok)
      Open(j) == dict_get(j, "url", 0) \notin processed_urls
  IN  SelectSeq(load_raw_jobs(rok), Open)

\* the entries of the raw file whose URL (0 stands for the default '' of
\* job_dict.get('url', '')) is not among the processed URLs and that
\* RawJobData(**job_dict) accepts; the others are logged and left out
get_unprocessed_jobs(rok, pok) ==
  LET processed_urls == get_processed_urls(pok)
      Open(j) == dict_get(j, "url", 0) \notin processed_urls /\ decodes(j)
  IN  SelectSeq(load_raw_jobs(rok), Open)

\* ---------------------------------------------------------- DataValidator
\* what a field of the attribute bag (the JSON object Gemini returned) can
\* be: absent, null, the empty string, a non-empty string, a non-zero
\* number, a non-empty list of strings, a non-empty list of other values
Kinds == {"absent", "null", "empty", "str", "num", "list_str", "list_num"}

\* the fields of the bag that validate_and_normalize does more with than
\* copy them
Fields == {"jobTitle", "orgName", "shortName", "keywords", "category", "employmentType"}

Bags == [Fields -> Kinds]

\* the bag of a well-formed answer
PlainBag == [f \in Fields |-> IF f \in {"keywords", "category"} THEN "list_str" ELSE "str"]

\* gemini_data.get(f, default): the default only when the key is absent
get(bag, f, default) == IF bag[f] = "absent" THEN default ELSE bag[f]

\* Python truth value of a field
truthy(v) == v \in {"str", "num", "list_str", "list_num"}

\* dict.get(v, ...) works for a hashable key and raises TypeError for a list
hashable(v) == v \notin {"list_str", "list_num"}

\* ', '.join(v) works for a string and for a list of strings (the default
\* [] included) and raises TypeError otherwise
joins(v) == v \in {"empty", "str", "list_str"}

\* v.lower() exists for strings only
lowers(v) == v \in {"empty", "str"}

\* validate_and_normalize: None (<< >>) when title or organisation is
\* missing, None when a step raises (the "except Exception" of line 134),
\* otherwise the record, with job_value_id None
validate_and_normalize(raw_job_data, bag) ==
  IF ~truthy(get(bag, "jobTitle", "null")) \/ ~truthy(get(bag, "orgName", "null"))
  THEN << >>
  ELSE IF \/ ~hashable(get(bag, "employmentType", "str"))
          \/ ~joins(get(bag, "keywords", "list_str"))
          \/ ~joins(get(bag, "category", "list_str"))
          \/ ~lowers(get(bag, "shortName", bag["orgName"]))
       THEN << >>
       ELSE <<ProcessedJobData(raw_job_data.url)>>

\* self.employment_to_app_type
employment_to_app_type ==
  [c \in {"FULL_TIME", "PART_TIME", "CONTRACTOR", "TEMPORARY", "INTERN", "VOLUNTEER",
          "OTHER", "PER_DIEM"} |->
     CASE c = "FULL_TIME" -> "Full-time"
       [] c = "PART_TIME" -> "Part-time"
       [] c = "CONTRACTOR" -> "Consultancy"
       [] c = "TEMPORARY" -> "Temporary"
       [] c = "INTERN" -> "Internship"
       [] c = "VOLUNTEER" -> "Volunteer"
       [] c = "OTHER" -> "Other"
       [] c = "PER_DIEM" -> "Per-diem"]

\* employment_type = gemini_data.get('employmentType', 'FULL_TIME'), for a
\* bag whose employmentType, when it is a non-empty string, is code: the
\* default only for an absent key; null gives None, a number itself
employment_type(bag, code) ==
  CASE bag["employmentType"] = "absent" -> "FULL_TIME"
    [] bag["employmentType"] = "str" -> code
    [] bag["employmentType"] = "null" -> "None"
    [] bag["employmentType"] = "empty" -> ""
    [] OTHER -> "1"

\* app_type = self.employment_to_app_type.get(employment_type, 'Full-time')
app_type(v) ==
  IF v \in DOMAIN employment_to_app_type THEN employment_to_app_type[v] ELSE "Full-time"

\* a value of a salary field: kind tells the JSON type; n is the number of
\* an int, ten times the number of a float (37 for 3.7), the number a
\* string of digits (with sign and blanks, as int() accepts) spells out
SalaryValue(kind, n) == [kind |-> kind, n |-> n]

\* int(v): <<the integer>>, or << >> when int() raises.  A float is cut
\* off towards zero; a string must spell an integer ("5.0" and "abc" do
\* not); a list is a TypeError
int(v) ==
  CASE v.kind = "int" -> <<v.n>>
    [] v.kind = "float" -> <<IF v.n >= 0 THEN v.n \div 10 ELSE -((-v.n) \div 10)>>
    [] v.kind = "str_int" -> <<v.n>>
    [] OTHER -> << >>

\* _normalize_salary: gemini_data.get(key, 0) gives the int 0 for an absent
\* key; None becomes 0 for the minimum and the minimum for the maximum; so
\* does a value on which int() raises
normalize_salary(lo, hi) ==
  LET got_min == IF lo.kind = "absent" THEN SalaryValue("int", 0) ELSE lo
      got_max == IF hi.kind = "absent" THEN SalaryValue("int", 0) ELSE hi
      min_salary == IF got_min.kind = "null" THEN 0
                    ELSE IF int(got_min) = << >> THEN 0 ELSE int(got_min)[1]
      max_salary == IF got_max.kind = "null" THEN min_salary
                    ELSE IF int(got_max) = << >> THEN min_salary ELSE int(got_max)[1]
  IN  <<min_salary, max_salary>>

\* Texts are sequences of characters.  The characters of the items: a
\* letter, the quote and the backslash, which JSON escapes
Chars == {"a", "\"", "\\"}

\* json.dumps of a string: quoted, with quote and backslash escaped
RECURSIVE escape(_)
escape(str) ==
  IF str = << >> THEN << >>
  ELSE (IF Head(str) \in {"\"", "\\"} THEN <<"\\", Head(str)>> ELSE <<Head(str)>>)
       \o escape(Tail(str))

\* a quoting that leaves the characters as they are
dumps_str_unescaped(str) == <<"\"">> \o str \o <<"\"">>

dumps_str(str) == <<"\"">> \o escape(str) \o <<"\"">>

\* the lines of the items from the k-th on, each on a line of its own,
\* indented by 4 blanks, with a comma after all but the last
RECURSIVE dumps_items(_, _)
dumps_items(list, k) ==
  IF k > Len(list) THEN << >>
  ELSE <<"\n", " ", " ", " ", " ">> \o dumps_str(list[k])
       \o (IF k < Len(list) THEN <<",">> ELSE << >>)
       \o dumps_items(list, k + 1)

\* json.dumps(list, ensure_ascii=False, indent=4) for a list of strings
json_dumps(list) ==
  IF list = << >> THEN <<"[", "]">>
  ELSE <<"[">> \o dumps_items(list, 1) \o <<"\n", "]">>

\* json.loads of a text that holds a list of strings, which is what the
\* stored text is read back with.  Blanks and line ends between the tokens
\* are skipped
RECURSIVE skip_whitespace(_, _)
skip_whitespace(text, p) ==
  IF p <= Len(text) /\ text[p] \in {" ", "\n"} THEN skip_whitespace(text, p + 1) ELSE p

Failed == [ok |-> FALSE, value |-> << >>, next |-> 0]

\* the string whose opening quote stands before position p: up to the next
\* quote that no backslash precedes; a backslash must be followed by a quote
\* or a backslash (the letter of the model is no escape), and no line end
\* may stand in a string
RECURSIVE scan_string(_, _, _)
scan_string(text, p, acc) ==
  IF p > Len(text) \/ text[p] = "\n" THEN Failed
  ELSE IF text[p] = "\"" THEN [ok |-> TRUE, value |-> acc, next |-> p + 1]
  ELSE IF text[p] = "\\"
    THEN IF p + 1 <= Len(text) /\ text[p + 1] \in {"\"", "\\"}
           THEN scan_string(text, p + 2, Append(acc, text[p + 1]))
           ELSE Failed
  ELSE scan_string(text, p + 1, Append(acc, text[p]))

\* the items from position p on, up to the closing bracket
RECURSIVE scan_items(_, _, _)
scan_items(text, p, acc) ==
  IF p > Len(text) \/ text[p] # "\"" THEN Failed
  ELSE LET item == scan_string(text, p + 1, << >>)
           q == skip_whitespace(text, item.next)
       IN  IF ~item.ok \/ q > Len(text) THEN Failed
           ELSE IF text[q] = ","
             THEN scan_items(text, skip_whitespace(text, q + 1), Append(acc, item.value))
           ELSE IF text[q] = "]"
             THEN [ok |-> TRUE, value |-> Append(acc, item.value), next |-> q + 1]
           ELSE Failed

\* json.loads(text): <<the list>>, or << >> for a JSONDecodeError
json_loads(text) ==
  LET p == skip_whitespace(text, 1)
      q == skip_whitespace(text, p + 1)
      list == IF p > Len(text) \/ text[p] # "[" \/ q > Len(text) THEN Failed
              ELSE IF text[q] = "]" THEN [ok |-> TRUE, value |-> << >>, next |-> q + 1]
              ELSE scan_items(text, q, << >>)
  IN  IF list.ok /\ skip_whitespace(text, list.next) = Len(text) + 1 THEN <<list.value>>
      ELSE << >>

\* self.default_benefits: seven strings, each written here by its initial
default_benefits == <<<<"C">>, <<"H">>, <<"P">>, <<"L">>, <<"T">>, <<"R">>, <<"D">>>>

\* _normalize_json_field for what is not a string: a list is dumped, any
\* other value (None, a number) gives the text of the empty list.  An absent
\* key has become the list [] in gemini_data.get(key, [])
normalize_json_field(data) ==
  IF data.kind = "absent" THEN json_dumps(<< >>)
  ELSE IF data.kind = "list" THEN json_dumps(data.n)
  ELSE json_dumps(<< >>)

\* the text validate_and_normalize stores for a list-valued field: for
\* jobBenefits the default benefits replace the text '[]'
stored_json_field(name, data) ==
  IF name = "jobBenefits" /\ normalize_json_field(data) = <<"[", "]">>
    THEN json_dumps(default_benefits)
    ELSE normalize_json_field(data)

\* the calendar of datetime
IsLeap(y) == (y % 4 = 0 /\ y % 100 # 0) \/ y % 400 = 0

DaysInMonth(y, m) ==
  IF m = 2 THEN (IF IsLeap(y) THEN 29 ELSE 28)
  ELSE IF m \in {4, 6, 9, 11} THEN 30 ELSE 31

DaysInYear(y) == IF IsLeap(y) THEN 366 ELSE 365

\* the years the model counts days from
BaseYear == 2023

\* days from the start of BaseYear to the start of year y
RECURSIVE DaysBeforeYear(_)
DaysBeforeYear(y) == IF y <= BaseYear THEN 0 ELSE DaysBeforeYear(y - 1) + DaysInYear(y - 1)

RECURSIVE DaysBeforeMonth(_, _)
DaysBeforeMonth(y, m) == IF m <= 1 THEN 0 ELSE DaysBeforeMonth(y, m - 1) + DaysInMonth(y, m - 1)

\* the day number of a date, as datetime keeps it for its arithmetic
toordinal(date) == DaysBeforeYear(date.y) + DaysBeforeMonth(date.y, date.m) + date.d

\* the date of a day number
RECURSIVE ymd(_, _, _)
ymd(y, m, n) ==
  IF n > DaysInYear(y) /\ m = 1 THEN ymd(y + 1, 1, n - DaysInYear(y))
  ELSE IF n > DaysInMonth(y, m) THEN ymd(y, m + 1, n - DaysInMonth(y, m))
  ELSE [y |-> y, m |-> m, d |-> n]

fromordinal(n) == ymd(BaseYear, 1, n)

\* a default that takes the same day of the next month
plus_one_month(date, days) ==
  IF date.m = 12 THEN [y |-> date.y + 1, m |-> 1, d |-> date.d]
  ELSE [y |-> date.y, m |-> date.m + 1,
        d |-> IF date.d > DaysInMonth(date.y, date.m + 1) THEN DaysInMonth(date.y, date.m + 1)
              ELSE date.d]

\* posted_dt + timedelta(days=days), the date of it
plus_timedelta(date, days) == fromordinal(toordinal(date) + days)

\* deadline_dt.replace(hour=23, minute=59, second=59, tzinfo=timezone.utc)
\* as strftime("%Y-%m-%dT%H:%M:%S+00:00") writes it
end_of_day(date) ==
  [y |-> date.y, m |-> date.m, d |-> date.d, h |-> 23, mi |-> 59, s |-> 59, tz |-> "+00:00"]

\* _calculate_deadline(deadline_str, date_posted), its valid_through: a
\* deadline the extraction step gave as "%d %b %Y" is taken; without one
\* (None or '') it is 30 days after the posting; one that strptime rejects
\* gives 30 days after now
calculate_deadline(deadline_str, posted, now) ==
  IF deadline_str.kind = "date" THEN end_of_day(deadline_str.n)
  ELSE IF deadline_str.kind \in {"null", "empty"}
    THEN end_of_day(plus_timedelta([y |-> posted.y, m |-> posted.m, d |-> posted.d], 30))
  ELSE end_of_day(plus_timedelta(now, 30))

\* ------------------------------------------------------ LocationEnricher
\* A field of the dict is "absent", "null" (None), "empty" ('') or a
\* non-empty string.  Python truth value of a field
filled(v) == v \notin {"absent", "null", "empty"}

\* a or b
or(a, b) == IF filled(a) THEN a ELSE b

\* an enricher that writes what the lookup found over what the dict had
enrich_job_data_overwriting(data, info) ==
  IF ~(filled(get(data, "shortName", "empty")) /\ filled(get(data, "jobCountry", "empty")))
     \/ info = << >>
  THEN data
  ELSE [data EXCEPT
          !["streetAddress"] = or(info[1].street_address, or(get(data, "jobCity", "null"), data["jobCountry"])),
          !["addressLocality"] = or(info[1].locality, or(get(data, "jobCity", "null"), data["jobCountry"])),
          !["addressRegion"] = or(info[1].region, or(get(data, "jobCity", "null"), data["jobCountry"])),
          !["postalCode"] = or(info[1].postal_code, "00000")]

\* enrich_job_data(processed_data) when get_place_info returns info (<< >>
\* for None): without a short name and a country, or without place
\* information, the dict is returned as it is; else each of the four address
\* fields that is not filled gets what the lookup found, or the city, or the
\* country, the postal code "00000"
enrich_job_data(data, info) ==
  IF ~(filled(get(data, "shortName", "empty")) /\ filled(get(data, "jobCountry", "empty")))
     \/ info = << >>
  THEN data
  ELSE LET job_country == get(data, "jobCountry", "empty")
           fallback == or(get(data, "jobCity", "null"), job_country)
           keep(f, found) == IF filled(get(data, f, "null")) THEN data[f] ELSE found
       IN  [data EXCEPT
              !["streetAddress"] = keep("streetAddress", or(info[1].street_address, fallback)),
              !["addressLocality"] = keep("addressLocality", or(info[1].locality, fallback)),
              !["addressRegion"] = keep("addressRegion", or(info[1].region, fallback)),
              !["postalCode"] = keep("postalCode", or(info[1].postal_code, "00000"))]

\* -------------------------------------------------------------- the state
\* the parts of the program that a step of a pipeline run leaves alone
scheduler == <<main_pc, exit_code, gemini_api_key>>

pool == <<existing_urls, executor, futures, completed, taken, all_urls>>

request == <<request_pc, retries, response, returned, attempts, waited>>

employments == <<employment_code, employment>>

salaries == <<minSalary, maxSalary, salary>>

\* the fields of gemini_data that the model carries with their values, and
\* what the validator makes of them
json_fields == <<field, field_data, json_field>>

deadlines == <<date_posted, deadLine, valid_through>>

enrichments == <<processed_data, place_info, enriched>>

normalizers == <<salaries, json_fields, deadlines, enrichments>>

publisher == <<post_pc>>

elsewhere == <<scheduler, pool, request, employments, normalizers, publisher>>

\* a field the extraction step left out
Absent == [kind |-> "absent", n |-> 0]

\* the extraction step gave no salary
SalariesIdle ==
  /\ minSalary = Absent
  /\ maxSalary = Absent
  /\ salary = << >>

\* and no responsibilities
JsonFieldsIdle ==
  /\ field = "responsibilities"
  /\ field_data = Absent
  /\ json_field = << >>

\* the record was scraped on 1 January 2024 and has no deadline
DeadlinesIdle ==
  /\ date_posted = [y |-> 2024, m |-> 1, d |-> 1, h |-> 0]
  /\ deadLine = [kind |-> "null", n |-> 0]
  /\ valid_through = << >>

\* the keys of the dict that enrich_job_data reads or writes, and one that
\* it does neither
EnrichedFields ==
  {"shortName", "jobCountry", "jobCity", "streetAddress", "addressLocality",
   "addressRegion", "postalCode", "jobTitle"}

\* and nothing is known of the employer
EnrichmentsIdle ==
  /\ processed_data = [f \in EnrichedFields |-> "absent"]
  /\ place_info = [called |-> FALSE, info |-> << >>]
  /\ enriched = << >>

NormalizersIdle == SalariesIdle /\ JsonFieldsIdle /\ DeadlinesIdle /\ EnrichmentsIdle

\* main() is past its startup and has not returned
\* no worker pool exists, no request is under way, and the extraction
\* step names the employment types FULL_TIME
BesidesMainIdle ==
  /\ existing_urls = {}
  /\ executor = "none"
  /\ futures = << >>
  /\ completed = << >>
  /\ taken = 0
  /\ all_urls = {}
  /\ request_pc = "idle"
  /\ retries = 0
  /\ response = << >>
  /\ returned = << >>
  /\ attempts = 0
  /\ waited = 0
  /\ employment_code = "FULL_TIME"
  /\ employment = << >>
  /\ post_pc = "idle"
  /\ NormalizersIdle

\* main() is past its startup with a configured key
ElsewhereIdle ==
  /\ main_pc = "scheduling"
  /\ exit_code = << >>
  /\ gemini_api_key = "key"
  /\ BesidesMainIdle

\* the pipeline objects after construction, before any run
Constructed ==
  /\ faulty = FALSE
  /\ write_faulty = FALSE
  /\ jobs_file = << >>
  /\ processed_jobs_file = << >>
  /\ pc = "idle"
  /\ run_no = 0
  /\ new_urls = {}
  /\ pending = {}
  /\ new_jobs = << >>
  /\ new_job_count = 0
  /\ unprocessed_jobs = << >>
  /\ i = 0
  /\ processed_count = 0
  /\ jobs_to_publish = << >>
  /\ published_count = 0
  /\ result = << >>
  /\ phases = << >>
  /\ raw_at_start = << >>
  /\ proc_at_start = << >>
  /\ p2_log = << >>
  /\ extract_failures = 0
  /\ publish_calls = 0
  /\ html_failures = 0
  /\ api_log = << >>
  /\ api_calls = 0
  /\ appended = << >>
  /\ published_through = 0
  /\ driver = FALSE
  /\ interrupted = FALSE
  /\ phase_error = FALSE
  /\ gemini_data = PlainBag
  /\ validation_result = << >>
  /\ previous_status = "none"
  /\ raw_file_written = FALSE

Init ==
  /\ variant \in {"job_pipeline", "main"}
  /\ Constructed
  /\ ElsewhereIdle

store == <<jobs_file, processed_jobs_file>>
config == <<variant, faulty, write_faulty>>
phase1 == <<new_urls, pending, new_jobs, new_job_count>>
phase2 == <<unprocessed_jobs, processed_count, p2_log, extract_failures>>
phase3 == <<jobs_to_publish, published_count, publish_calls, html_failures>>
history == <<raw_at_start, proc_at_start, api_calls, appended, published_through>>
caller == <<driver, interrupted, phase_error>>
validator == <<gemini_data, validation_result>>

\* what run_job_pipeline returns for a finished run: the interrupt is caught
\* by "except KeyboardInterrupt"; result['status'] on None raises a
\* TypeError, which "except Exception" turns into an error result; a dict is
\* returned as it is
run_job_pipeline ==
  IF interrupted THEN [status |-> "interrupted"]
  ELSE IF result = << >> THEN [status |-> "error"]
  ELSE result[1]

\* ------------------------------------------------------------ phase 1
\* run_pipeline is entered and _scrape_new_jobs runs up to its loop:
\* get_existing_urls, scrape_job_urls, new_urls = all_urls - existing_urls.
\* scrape_job_urls may raise; the phase then returns 0.
ScrapeUrls ==
  /\ pc \in {"idle", "done"}
  /\ main_pc = "scheduling"
  /\ run_no + api_calls < MaxRuns
  /\ \E raises \in BOOLEAN, ok \in ReadOK :
     \E fresh \in IF raises THEN {{}}
                  ELSE {scraped \ get_existing_urls(ok) : scraped \in SUBSET URLS} :
       /\ new_urls' = fresh
       /\ pending' = fresh
       /\ pc' = IF fresh = {} THEN "cleanup" ELSE "scrape_details"
       /\ phase_error' = raises
       /\ faulty' = (faulty /\ ok)
  /\ run_no' = run_no + 1
  /\ new_jobs' = << >>
  /\ new_job_count' = 0
  /\ unprocessed_jobs' = << >>
  /\ i' = 0
  /\ processed_count' = 0
  /\ jobs_to_publish' = << >>
  /\ published_count' = 0
  /\ result' = << >>
  /\ phases' = <<"scrape">>
  /\ raw_at_start' = jobs_file
  /\ proc_at_start' = processed_jobs_file
  /\ p2_log' = << >>
  /\ extract_failures' = 0
  /\ publish_calls' = 0
  /\ html_failures' = 0
  /\ api_log' = << >>
  /\ driver' = FALSE
  /\ interrupted' = FALSE
  /\ validation_result' = << >>
  /\ raw_file_written' = FALSE
  /\ previous_status' = IF pc = "done" THEN run_job_pipeline.status ELSE "none"
  /\ UNCHANGED <<elsewhere, variant, write_faulty, gemini_data, store, api_calls, appended,
                 published_through>>

\* one iteration of "for url in new_urls": scrape_job_details(url) returns a
\* RawJobData, returns None, or raises.  src/src/main.py catches the
\* exception per URL; in src/src/job_pipeline.py it ends the phase with 0.
ScrapeDetails ==
  /\ pc = "scrape_details"
  /\ pending # {}
  /\ \E url \in pending, outcome \in {"ok", "none", "raise"} :
       /\ pending' = pending \ {url}
       /\ new_jobs' = IF outcome = "ok"
                      THEN Append(new_jobs, RawJobData(url, run_no))
                      ELSE new_jobs
       /\ pc' = IF outcome = "raise" /\ variant = "job_pipeline"
                THEN "cleanup"
                ELSE IF pending' = {} THEN "scrape_save" ELSE "scrape_details"
       /\ phase_error' = (outcome = "raise" /\ variant = "job_pipeline")
  /\ UNCHANGED <<elsewhere, previous_status, raw_file_written, config, validator, store, run_no, new_urls, new_job_count, phase2, i,
                 phase3, result, phases, history, api_log, driver, interrupted>>

\* a run_pipeline without the "if new_job_count == 0: return" after phase 1
ScrapeSave_going_on ==
  /\ pc = "scrape_save"
  /\ \E ok \in ReadOK, w \in WriteOK :
       LET call == variant = "job_pipeline" \/ new_jobs # << >>
           added == IF call THEN Len(new_job_dicts(new_jobs, ok)) ELSE 0
       IN  /\ jobs_file' = IF call THEN save_raw_jobs(add_raw_jobs(new_jobs, ok), w)
                           ELSE jobs_file
           /\ new_job_count' = added
           /\ pc' = "process_load"
           /\ faulty' = (faulty /\ (call => ok))
           /\ write_faulty' = (write_faulty /\ (call => w = "written"))
           /\ raw_file_written' = call
  /\ UNCHANGED <<elsewhere, previous_status, variant, validator, processed_jobs_file, run_no, new_urls, pending,
                 new_jobs, phase2, i, phase3, result, phases, history, api_log,
                 caller>>

\* the end of _scrape_new_jobs: add_raw_jobs(new_jobs) and its count, then
\* run_pipeline's "if new_job_count == 0: return".  src/src/main.py calls
\* add_raw_jobs only when new_jobs is not empty.
ScrapeSave ==
  /\ pc = "scrape_save"
  /\ \E ok \in ReadOK, w \in WriteOK :
       LET call == variant = "job_pipeline" \/ new_jobs # << >>
           added == IF call THEN Len(new_job_dicts(new_jobs, ok)) ELSE 0
       IN  /\ jobs_file' = IF call THEN save_raw_jobs(add_raw_jobs(new_jobs, ok), w)
                           ELSE jobs_file
           /\ new_job_count' = added
           /\ pc' = IF added = 0 THEN "cleanup" ELSE "process_load"
           /\ faulty' = (faulty /\ (call => ok))
           /\ write_faulty' = (write_faulty /\ (call => w = "written"))
           /\ raw_file_written' = call
  /\ UNCHANGED <<elsewhere, previous_status, variant, validator, processed_jobs_file, run_no, new_urls, pending,
                 new_jobs, phase2, i, phase3, result, phases, history, api_log,
                 caller>>

\* ------------------------------------------------------------ phase 2
\* the start of _process_new_jobs: get_unprocessed_jobs() and the
\* "if not unprocessed_jobs: return 0" test; an exception raised here ends
\* the phase with 0 ("except Exception" of _process_new_jobs)
ProcessLoad ==
  /\ pc = "process_load"
  /\ \E rok \in ReadOK, pok \in ReadOK, raises \in BOOLEAN :
       /\ unprocessed_jobs' = IF raises THEN << >> ELSE get_unprocessed_jobs(rok, pok)
       /\ pc' = IF unprocessed_jobs' = << >> THEN "publish_load" ELSE "process_item"
       /\ phase_error' = raises
       /\ faulty' = (faulty /\ (raises \/ (rok /\ pok)))
  /\ i' = 1
  /\ processed_count' = 0
  /\ p2_log' = << >>
  /\ extract_failures' = 0
  /\ phases' = Append(phases, "process")
  /\ UNCHANGED <<elsewhere, previous_status, raw_file_written, variant, write_faulty, validator, store, run_no, phase1, phase3,
                 result, history, api_log, driver, interrupted>>

\* what one record of the batch meets in the try block of the loop:
\*   "extract_none"  process_job returned None (or an empty bag): continue
\*   "reject"        validate_and_normalize returned None: continue
\*   "raise"         a sub-step raised: except Exception ... continue
\*   "ok"            get_next_job_id, add_processed_job, processed_count += 1
ProcessOutcomes == {"extract_none", "reject", "raise", "ok"}

\* where the loop of _process_new_jobs goes after the record at index idx:
\* every outcome, the "continue" of the except clause included, moves on to
\* the next record, and the phase ends after the last one
\* a loop that lets an exception of one record end the whole phase
process_next_abort(outcome, idx) ==
  IF outcome = "raise" \/ idx + 1 > Len(unprocessed_jobs)
  THEN "publish_load" ELSE "process_item"

process_next(outcome, idx) ==
  IF idx + 1 > Len(unprocessed_jobs) THEN "publish_load" ELSE "process_item"

\* attribute bags the extraction and enrichment steps may hand to the
\* validator: a well-formed one, one without a title, one with null keywords
SampleBags == {PlainBag, [PlainBag EXCEPT !["jobTitle"] = "absent"],
               [PlainBag EXCEPT !["keywords"] = "null"]}

ProcessItem ==
  /\ pc = "process_item"
  /\ i <= Len(unprocessed_jobs)
  /\ \E outcome \in ProcessOutcomes, idok \in ReadOK, addok \in ReadOK, w \in WriteOK :
     \E enriched_data \in IF outcome \in {"ok", "reject"} THEN SampleBags ELSE {PlainBag} :
       /\ outcome = "ok" => validate_and_normalize(unprocessed_jobs[i], enriched_data) # << >>
       /\ outcome = "reject" => validate_and_normalize(unprocessed_jobs[i], enriched_data) = << >>
       /\ validation_result' =
            IF outcome = "ok" THEN validate_and_normalize(unprocessed_jobs[i], enriched_data)
            ELSE << >>
       /\ LET raw_job == unprocessed_jobs[i]
              job_id == get_next_job_id(idok)
              processed_job == [validate_and_normalize(raw_job, enriched_data)[1]
                                  EXCEPT !.job_value_id = job_id]
          IN  IF outcome = "ok"
              THEN /\ processed_jobs_file' =
                        save_processed_jobs(add_processed_job(processed_job, addok), w)
                   /\ processed_count' = processed_count + 1
                   /\ p2_log' = Append(p2_log, [url |-> raw_job.url, stored |-> TRUE, id |-> job_id,
                                                 slept |-> TRUE])
                   /\ appended' = Append(appended, raw_job.url)
              ELSE /\ processed_jobs_file' = processed_jobs_file
                   /\ processed_count' = processed_count
                   /\ p2_log' = Append(p2_log, [url |-> raw_job.url, stored |-> FALSE, id |-> 0,
                                                 slept |-> FALSE])
                   /\ appended' = appended
       /\ extract_failures' = IF outcome = "extract_none" THEN extract_failures + 1
                              ELSE extract_failures
       /\ pc' = process_next(outcome, i)
       /\ faulty' = (faulty /\ (outcome = "ok" => (idok /\ addok)))
       /\ write_faulty' = (write_faulty /\ (outcome = "ok" => w = "written"))
  /\ i' = i + 1
  /\ UNCHANGED <<elsewhere, previous_status, raw_file_written, variant, gemini_data, jobs_file, run_no, phase1, unprocessed_jobs, phase3,
                 result, phases, raw_at_start, proc_at_start, api_calls, api_log,
                 published_through, caller>>

\* ------------------------------------------------------------ phase 3
\* a phase 3 that takes its candidates out of the processed store
PublishLoad_draining ==
  /\ pc = "publish_load"
  /\ \E ok \in ReadOK :
       /\ jobs_to_publish' = Head10(load_processed_jobs(ok))
       /\ processed_jobs_file' =
            SubSeq(processed_jobs_file, Len(jobs_to_publish') + 1, Len(processed_jobs_file))
       /\ pc' = IF jobs_to_publish' = << >> THEN "cleanup" ELSE "publish_item"
       /\ faulty' = (faulty /\ ok)
  /\ i' = 1
  /\ published_count' = 0
  /\ publish_calls' = 0
  /\ html_failures' = 0
  /\ phases' = Append(phases, "publish")
  /\ UNCHANGED <<elsewhere, previous_status, raw_file_written, variant, write_faulty, validator, jobs_file,
                 run_no, phase1, phase2, result, history, api_log, caller>>

\* the start of _publish_new_jobs: the candidates are the first 10 entries
\* of load_processed_jobs(); every stored dict converts back to a
\* ProcessedJobData
PublishLoad ==
  /\ pc = "publish_load"
  /\ \E ok \in ReadOK :
       /\ jobs_to_publish' = Head10(load_processed_jobs(ok))
       /\ pc' = IF jobs_to_publish' = << >> THEN "cleanup" ELSE "publish_item"
       /\ faulty' = (faulty /\ ok)
  /\ i' = 1
  /\ published_count' = 0
  /\ publish_calls' = 0
  /\ html_failures' = 0
  /\ phases' = Append(phases, "publish")
  /\ UNCHANGED <<elsewhere, previous_status, raw_file_written, variant, write_faulty, validator, store, run_no, phase1, phase2,
                 result, history, api_log, caller>>

\* what one candidate meets in the try block of the loop:
\*   "no_html"    generate_html returned "": continue, no publish call
\*   "published"  create_blog_post returned True
\*   "failed"     create_blog_post returned False
\*   "raise"      create_blog_post raised: except Exception ... continue
PublishOutcomes == {"no_html", "published", "failed", "raise"}

\* the values publisher.driver may have after create_blog_post ended with
\* the given outcome: a publisher without a session calls setup_driver, which
\* returns a session or None (the post then fails); a session once set stays
driver_after_post(outcome) ==
  IF outcome = "published" THEN {TRUE} ELSE {driver, TRUE}

PublishItem ==
  /\ pc = "publish_item"
  /\ i <= Len(jobs_to_publish)
  /\ \E outcome \in PublishOutcomes :
       /\ published_count' = IF outcome = "published" THEN published_count + 1
                             ELSE published_count
       /\ publish_calls' = IF outcome = "no_html" THEN publish_calls
                           ELSE publish_calls + 1
       /\ html_failures' = IF outcome = "no_html" THEN html_failures + 1
                           ELSE html_failures
       /\ driver' \in IF outcome = "no_html" THEN {driver}
                      ELSE driver_after_post(outcome)
  /\ i' = i + 1
  /\ pc' = IF i' > Len(jobs_to_publish) THEN "cleanup" ELSE "publish_item"
  /\ published_through' =
       IF /\ pc' = "cleanup"
          /\ Len(jobs_to_publish) = PublishWindow
          /\ published_count' = Len(jobs_to_publish)
          /\ \A k \in 1..PublishWindow :
               jobs_to_publish[k].url = appended[Len(appended) + 1 - k]
       THEN Len(appended) ELSE published_through
  /\ UNCHANGED <<elsewhere, previous_status, raw_file_written, config, validator, store, run_no, phase1, phase2, jobs_to_publish,
                 result, phases, raw_at_start, proc_at_start, api_calls,
                 appended, api_log, interrupted, phase_error>>

\* -------------------------------------------------------- end of the run
\* the dict src/src/main.py returns when phase 1 added nothing
NoOpResult == [status |-> "success", scraped |-> 0, processed |-> 0, published |-> 0]

\* the dict src/src/main.py returns after the three phases
FullResult == [status |-> "success", scraped |-> new_job_count,
               processed |-> processed_count, published |-> published_count]

\* the return value of run_pipeline: src/src/job_pipeline.py has no return
\* value on any path (None), src/src/main.py returns a dict; a run that a
\* KeyboardInterrupt ends returns nothing in either class
run_pipeline_result ==
  IF variant = "job_pipeline" \/ interrupted THEN << >>
  ELSE IF new_job_count = 0 THEN <<NoOpResult>> ELSE <<FullResult>>

\* a release that leaves the session in place
close_driver_keep(d) == d

\* BloggerPublisher.close_driver: a held session is quit (errors of quit()
\* are swallowed) and driver becomes None
close_driver(d) == IF d THEN FALSE ELSE d

\* _cleanup of src/src/main.py: close_driver only when a driver is set
cleanup(d) == IF d THEN close_driver(d) ELSE d

\* a run whose status is not success ends the process with exit code 1
Cleanup_fatal ==
  /\ pc = "cleanup"
  /\ driver' = IF variant = "job_pipeline" THEN close_driver(driver) ELSE cleanup(driver)
  /\ result' = run_pipeline_result
  /\ pc' = "done"
  /\ main_pc' = IF result' = << >> THEN "returned" ELSE main_pc
  /\ exit_code' = IF result' = << >> THEN <<1>> ELSE exit_code
  /\ UNCHANGED <<previous_status, raw_file_written, config, validator, store, run_no,
                 phase1, phase2, i, phase3, phases, history, api_log, interrupted,
                 phase_error, gemini_api_key, pool, request, employments, normalizers, publisher>>

\* the finally block (cleanup) and the return of run_pipeline
Cleanup ==
  /\ pc = "cleanup"
  /\ driver' = IF variant = "job_pipeline" THEN close_driver(driver) ELSE cleanup(driver)
  /\ result' = run_pipeline_result
  /\ pc' = "done"
  /\ UNCHANGED <<elsewhere, previous_status, raw_file_written, config, validator, store, run_no, phase1, phase2, i, phase3, phases,
                 history, api_log, interrupted, phase_error>>

\* ------------------------------------------------------------ the caller
\* the positions of a run at which a KeyboardInterrupt can arrive
Running == {"scrape_details", "scrape_save", "process_load", "process_item",
            "publish_load", "publish_item"}

\* a KeyboardInterrupt arrives during the run: no "except Exception" clause
\* catches it, so it leaves the phase and run_pipeline through the finally
\* block
Interrupt ==
  /\ pc \in Running
  /\ interrupted' = TRUE
  /\ pc' = "cleanup"
  /\ UNCHANGED <<elsewhere, previous_status, raw_file_written, config, validator, store, run_no, phase1, phase2, i, phase3, result,
                 phases, history, api_log, driver, phase_error>>

\* close_driver called once more on the publisher of a finished run
CloseDriver ==
  /\ pc = "done"
  /\ api_calls < MaxRuns
  /\ driver' = close_driver(driver)
  /\ api_calls' = api_calls + 1
  /\ UNCHANGED <<elsewhere, previous_status, raw_file_written, config, validator, store, pc, run_no, phase1, phase2, i, phase3, result,
                 phases, raw_at_start, proc_at_start, appended,
                 published_through, api_log, interrupted, phase_error>>

\* ------------------------------------------------- direct use of the store
\* the batches a caller may hand to add_raw_jobs: any list of RawJobData, the
\* empty list and lists that repeat a URL included; the k-th record of a
\* batch carries k as its content
Batches ==
  UNION {{[k \in 1..n |-> RawJobData(us[k], k)] : us \in [1..n -> URLS]} : n \in 0..MaxBatch}

\* add_raw_jobs(batch) called on the store outside a run; api_log keeps the
\* batch and the returned count of each call
AddRawJobs ==
  /\ pc \in {"idle", "done"}
  /\ run_no + api_calls < MaxRuns
  /\ \E batch \in Batches, ok \in ReadOK, w \in WriteOK :
       /\ jobs_file' = save_raw_jobs(add_raw_jobs(batch, ok), w)
       /\ api_log' = Append(api_log, [batch |-> batch, ret |-> Len(new_job_dicts(batch, ok))])
       /\ faulty' = (faulty /\ ok)
       /\ write_faulty' = (write_faulty /\ w = "written")
  /\ api_calls' = api_calls + 1
  /\ pc' = "idle"
  /\ raw_file_written' = TRUE
  /\ UNCHANGED <<elsewhere, previous_status, variant, validator, processed_jobs_file, run_no, phase1, phase2, i,
                 phase3, result, phases, raw_at_start, proc_at_start, appended,
                 published_through, caller>>

Run ==
  \/ ScrapeUrls
  \/ ScrapeDetails
  \/ ScrapeSave
  \/ ProcessLoad
  \/ ProcessItem
  \/ PublishLoad
  \/ PublishItem
  \/ Cleanup

\* the program: pipeline runs, one after the other
Next == Run

Spec == Init /\ [][Next]_vars

\* the program and callers of the store between runs
NextStore == Run \/ AddRawJobs

SpecStore == Init /\ [][NextStore]_vars

\* the program as its caller sees it: runs, interrupts from the keyboard,
\* and a second release of the publisher after a run
NextCaller == Run \/ Interrupt \/ CloseDriver

\* the last run of the budget, on stores still empty
InitCaller ==
  /\ variant \in {"job_pipeline", "main"}
  /\ faulty = FALSE
  /\ write_faulty = FALSE
  /\ jobs_file = << >>
  /\ processed_jobs_file = << >>
  /\ pc = "idle"
  /\ run_no = MaxRuns - 1
  /\ new_urls = {}
  /\ pending = {}
  /\ new_jobs = << >>
  /\ new_job_count = 0
  /\ unprocessed_jobs = << >>
  /\ i = 0
  /\ processed_count = 0
  /\ jobs_to_publish = << >>
  /\ published_count = 0
  /\ result = << >>
  /\ phases = << >>
  /\ raw_at_start = << >>
  /\ proc_at_start = << >>
  /\ p2_log = << >>
  /\ extract_failures = 0
  /\ publish_calls = 0
  /\ html_failures = 0
  /\ api_log = << >>
  /\ api_calls = 0
  /\ appended = << >>
  /\ published_through = 0
  /\ driver = FALSE
  /\ interrupted = FALSE
  /\ phase_error = FALSE
  /\ gemini_data = PlainBag
  /\ validation_result = << >>
  /\ previous_status = "none"
  /\ raw_file_written = FALSE
  /\ ElsewhereIdle

SpecCaller == InitCaller /\ [][NextCaller]_vars

\* ----------------------------------------------------------- the scheduler
\* main() of src/main.py: the initial execution, then the loop of
\* schedule.run_pending() and time.sleep(60).  A run is started by
\* run_job_pipeline (ScrapeUrls); a KeyboardInterrupt that arrives during a
\* run is caught inside run_job_pipeline (Interrupt), one that arrives while
\* main waits between runs reaches main's own handlers.

\* a KeyboardInterrupt arrives while main is not inside run_job_pipeline:
\* "except KeyboardInterrupt" of the loop breaks and main returns 0 (lines
\* 119-122, 129); outside the loop the outer handler returns 0 (131-133)
StopScheduler ==
  /\ main_pc \in {"scheduling", "retry_wait"}
  /\ pc \in {"idle", "done"}
  /\ main_pc' = "returned"
  /\ exit_code' = <<0>>
  /\ UNCHANGED <<config, validator, store, pc, run_no, phase1, phase2, i, phase3, result,
                 phases, history, api_log, caller, previous_status, raw_file_written,
                 gemini_api_key, pool, request, employments, normalizers, publisher>>

\* an exception is raised in the loop, after the initial execution, outside
\* run_job_pipeline: "except Exception" logs it and waits 60 seconds
SchedulerError ==
  /\ main_pc = "scheduling"
  /\ pc = "done"
  /\ main_pc' = "retry_wait"
  /\ UNCHANGED <<config, validator, store, pc, run_no, phase1, phase2, i, phase3, result,
                 phases, history, api_log, caller, previous_status, raw_file_written,
                 exit_code, gemini_api_key, pool, request, employments, normalizers, publisher>>

\* the 60 seconds are over and the loop goes on
RetryWaitOver ==
  /\ main_pc = "retry_wait"
  /\ main_pc' = "scheduling"
  /\ UNCHANGED <<config, validator, store, pc, run_no, phase1, phase2, i, phase3, result,
                 phases, history, api_log, caller, previous_status, raw_file_written,
                 exit_code, gemini_api_key, pool, request, employments, normalizers, publisher>>

NextScheduler == Run \/ Interrupt \/ StopScheduler \/ SchedulerError \/ RetryWaitOver

\* src/main.py imports the JobPipeline of src/src/job_pipeline.py
InitScheduler == Init /\ variant = "job_pipeline"

SpecScheduler == InitScheduler /\ [][NextScheduler]_vars

\* ------------------------------------------------------------- the startup
\* main() of src/main.py before the initial execution.

\* what the environment holds for GEMINI_API_KEY
Environment == {"unset", "", "your_gemini_api_key_here", "key"}

\* os.getenv('GEMINI_API_KEY', default) of ProcessingConfig.__post_init__:
\* a variable that is not set gives the default written into settings.py
getenv(value) == IF value = "unset" THEN "default_key" ELSE value

\* the check of lines 71-75 with the placeholder dropped
key_missing_when_empty(key) == key = ""

\* "not config.processing.gemini_api_key or ... == 'your_gemini_api_key_here'"
key_missing(key) == key = "" \/ key = "your_gemini_api_key_here"

\* lines 61-69: AppConfig() makes the data and the logs directory and
\* setup_logging opens the log file; an exception raised there reaches
\* "except Exception" of main (134-137), which returns 1
LoadConfig ==
  /\ main_pc = "startup"
  /\ \/ /\ main_pc' = "configured"
        /\ exit_code' = exit_code
     \/ /\ main_pc' = "returned"
        /\ exit_code' = <<1>>
  /\ UNCHANGED <<config, validator, store, pc, run_no, phase1, phase2, i, phase3, result,
                 phases, history, api_log, caller, previous_status, raw_file_written,
                 gemini_api_key, pool, request, employments, normalizers, publisher>>

\* lines 71-82: without a key main returns 1; with one the job is scheduled
\* and main goes on to the initial execution
VerifyConfig ==
  /\ main_pc = "configured"
  /\ IF key_missing(gemini_api_key)
     THEN /\ main_pc' = "returned"
          /\ exit_code' = <<1>>
     ELSE /\ main_pc' = "scheduling"
          /\ exit_code' = exit_code
  /\ UNCHANGED <<config, validator, store, pc, run_no, phase1, phase2, i, phase3, result,
                 phases, history, api_log, caller, previous_status, raw_file_written,
                 gemini_api_key, pool, request, employments, normalizers, publisher>>

\* main from its entry on: the startup, the runs, and what reaches main
\* between two runs (an interrupt inside a run ends it with the status
\* interrupted, as in SpecScheduler)
NextMain ==
  LoadConfig \/ VerifyConfig \/ Run \/ StopScheduler \/ SchedulerError \/ RetryWaitOver

\* main() is entered: nothing is configured and nothing has run
InitMain ==
  /\ variant = "job_pipeline"
  /\ Constructed
  /\ main_pc = "startup"
  /\ exit_code = << >>
  /\ gemini_api_key \in {getenv(value) : value \in Environment}
  /\ BesidesMainIdle

SpecMain == InitMain /\ [][NextMain]_vars

\* main after an execution that found no new URL on empty stores:
\* run_pipeline returned None and run_job_pipeline the status error; one more
\* run fits into the budget
InitAfterErrorRun ==
  /\ variant = "job_pipeline"
  /\ faulty = FALSE
  /\ write_faulty = FALSE
  /\ jobs_file = << >>
  /\ processed_jobs_file = << >>
  /\ pc = "done"
  /\ run_no = MaxRuns - 1
  /\ new_urls = {}
  /\ pending = {}
  /\ new_jobs = << >>
  /\ new_job_count = 0
  /\ unprocessed_jobs = << >>
  /\ i = 0
  /\ processed_count = 0
  /\ jobs_to_publish = << >>
  /\ published_count = 0
  /\ result = << >>
  /\ phases = <<"scrape">>
  /\ raw_at_start = << >>
  /\ proc_at_start = << >>
  /\ p2_log = << >>
  /\ extract_failures = 0
  /\ publish_calls = 0
  /\ html_failures = 0
  /\ api_log = << >>
  /\ api_calls = 0
  /\ appended = << >>
  /\ published_through = 0
  /\ driver = FALSE
  /\ interrupted = FALSE
  /\ phase_error = FALSE
  /\ gemini_data = PlainBag
  /\ validation_result = << >>
  /\ previous_status = "none"
  /\ raw_file_written = FALSE
  /\ ElsewhereIdle

\* the steps of a run are taken (the orchestrator thread keeps running), a
\* due job is started by schedule.run_pending() sooner or later although
\* the loop may meet errors in between, and time.sleep(60) returns
SchedulerFairness ==
  /\ WF_vars(Run)
  /\ SF_vars(ScrapeUrls)
  /\ WF_vars(RetryWaitOver)

SpecSchedulerLive == InitAfterErrorRun /\ [][NextScheduler]_vars /\ SchedulerFairness

\* ------------------------------------------------------ failing file access
\* the state after construction, with rf saying whether a read of a store
\* file may fail and wf whether a write may
EmptyStart(rf, wf) ==
  /\ variant \in {"job_pipeline", "main"}
  /\ faulty = rf
  /\ write_faulty = wf
  /\ jobs_file = << >>
  /\ processed_jobs_file = << >>
  /\ pc = "idle"
  /\ run_no = 0
  /\ new_urls = {}
  /\ pending = {}
  /\ new_jobs = << >>
  /\ new_job_count = 0
  /\ unprocessed_jobs = << >>
  /\ i = 0
  /\ processed_count = 0
  /\ jobs_to_publish = << >>
  /\ published_count = 0
  /\ result = << >>
  /\ phases = << >>
  /\ raw_at_start = << >>
  /\ proc_at_start = << >>
  /\ p2_log = << >>
  /\ extract_failures = 0
  /\ publish_calls = 0
  /\ html_failures = 0
  /\ api_log = << >>
  /\ api_calls = 0
  /\ appended = << >>
  /\ published_through = 0
  /\ driver = FALSE
  /\ interrupted = FALSE
  /\ phase_error = FALSE
  /\ gemini_data = PlainBag
  /\ validation_result = << >>
  /\ previous_status = "none"
  /\ raw_file_written = FALSE
  /\ ElsewhereIdle

InitFaults == EmptyStart(TRUE, FALSE)

\* pipeline runs in which the reads of one step fail
SpecFaults == InitFaults /\ [][Next]_vars

InitWriteFaults == EmptyStart(FALSE, TRUE)

\* pipeline runs in which the write of one step fails
SpecWriteFaults == InitWriteFaults /\ [][Next]_vars

\* ------------------------------------------------- the validator on its own
\* any attribute bag may come back from the extraction step
InitValidator ==
  /\ variant = "job_pipeline"
  /\ faulty = FALSE
  /\ write_faulty = FALSE
  /\ jobs_file = <<RawJobData(1, 1)>>
  /\ processed_jobs_file = << >>
  /\ pc = "idle"
  /\ run_no = 1
  /\ new_urls = {}
  /\ pending = {}
  /\ new_jobs = << >>
  /\ new_job_count = 0
  /\ unprocessed_jobs = <<RawJobData(1, 1)>>
  /\ i = 1
  /\ processed_count = 0
  /\ jobs_to_publish = << >>
  /\ published_count = 0
  /\ result = << >>
  /\ phases = << >>
  /\ raw_at_start = << >>
  /\ proc_at_start = << >>
  /\ p2_log = << >>
  /\ extract_failures = 0
  /\ publish_calls = 0
  /\ html_failures = 0
  /\ api_log = << >>
  /\ api_calls = 0
  /\ appended = << >>
  /\ published_through = 0
  /\ driver = FALSE
  /\ interrupted = FALSE
  /\ phase_error = FALSE
  /\ gemini_data \in Bags
  /\ validation_result = << >>
  /\ previous_status = "none"
  /\ raw_file_written = FALSE
  /\ ElsewhereIdle

\* validate_and_normalize(raw_job, enriched) is called
Validate ==
  /\ pc = "idle"
  /\ validation_result' = validate_and_normalize(unprocessed_jobs[i], gemini_data)
  /\ pc' = "validated"
  /\ UNCHANGED <<elsewhere, previous_status, raw_file_written, config, store, run_no, phase1, phase2, i, phase3, result,
                 phases, history, api_log, caller, gemini_data>>

NextValidator == Validate

SpecValidator == InitValidator /\ [][NextValidator]_vars

\* ---------------------------------------------- a store filled by earlier runs
\* numbers of records the stores hold when the run under study starts: one
\* below the publish window, and the window itself
StoredAtStart == {PublishWindow - 1, PublishWindow}

\* the URL of the k-th record the earlier runs stored; URLs 1 and 2 are not
\* stored
StoredUrl(k) == k + 2

\* the state earlier runs have left: n raw records, all of them processed
\* with ids 1..n, the newest first in both files (add_raw_jobs and
\* add_processed_job put new records in front); what was published is not
\* known
InitWindow ==
  /\ variant \in {"job_pipeline", "main"}
  /\ faulty = FALSE
  /\ write_faulty = FALSE
  /\ \E n \in StoredAtStart :
       /\ jobs_file = [k \in 1..n |-> RawJobData(StoredUrl(n + 1 - k), 0)]
       /\ processed_jobs_file =
            [k \in 1..n |-> [ProcessedJobData(StoredUrl(n + 1 - k))
                               EXCEPT !.job_value_id = n + 1 - k]]
       /\ appended = [k \in 1..n |-> StoredUrl(k)]
       /\ published_through = 0
  /\ pc = "idle"
  /\ run_no = 0
  /\ new_urls = {}
  /\ pending = {}
  /\ new_jobs = << >>
  /\ new_job_count = 0
  /\ unprocessed_jobs = << >>
  /\ i = 0
  /\ processed_count = 0
  /\ jobs_to_publish = << >>
  /\ published_count = 0
  /\ result = << >>
  /\ phases = << >>
  /\ raw_at_start = jobs_file
  /\ proc_at_start = processed_jobs_file
  /\ p2_log = << >>
  /\ extract_failures = 0
  /\ publish_calls = 0
  /\ html_failures = 0
  /\ api_log = << >>
  /\ api_calls = 0
  /\ driver = FALSE
  /\ interrupted = FALSE
  /\ phase_error = FALSE
  /\ gemini_data = PlainBag
  /\ validation_result = << >>
  /\ previous_status = "none"
  /\ raw_file_written = FALSE
  /\ ElsewhereIdle

\* pipeline runs on top of a store that holds about a window of records
SpecWindow == InitWindow /\ [][Next]_vars

\* ------------------------------------------- a run over more than a window
\* the records of a phase 1 that added one record more than the publish
\* window holds, and how many of them phase 2 has gone through
LongBatch == PublishWindow + 1

LongBatchDone == PublishWindow - 1

\* the last run of the budget on empty stores, inside the loop of
\* _process_new_jobs: phase 1 added LongBatch records, and the first
\* LongBatchDone of them have been extracted, validated and stored
InLongRun ==
  /\ variant \in {"job_pipeline", "main"}
  /\ faulty = FALSE
  /\ write_faulty = FALSE
  /\ jobs_file = [k \in 1..LongBatch |-> RawJobData(k, MaxRuns)]
  /\ processed_jobs_file =
       [k \in 1..LongBatchDone |-> [ProcessedJobData(LongBatchDone + 1 - k)
                                      EXCEPT !.job_value_id = LongBatchDone + 1 - k]]
  /\ appended = [k \in 1..LongBatchDone |-> k]
  /\ published_through = 0
  /\ pc = "process_item"
  /\ run_no = MaxRuns
  /\ new_urls = 1..LongBatch
  /\ pending = {}
  /\ new_jobs = jobs_file
  /\ new_job_count = LongBatch
  /\ unprocessed_jobs = jobs_file
  /\ i = LongBatchDone + 1
  /\ processed_count = LongBatchDone
  /\ jobs_to_publish = << >>
  /\ published_count = 0
  /\ result = << >>
  /\ phases = <<"scrape", "process">>
  /\ raw_at_start = << >>
  /\ proc_at_start = << >>
  /\ p2_log = [k \in 1..LongBatchDone |->
                [url |-> k, stored |-> TRUE, id |-> k, slept |-> TRUE]]
  /\ extract_failures = 0
  /\ publish_calls = 0
  /\ html_failures = 0
  /\ api_log = << >>
  /\ api_calls = 0
  /\ driver = FALSE
  /\ interrupted = FALSE
  /\ phase_error = FALSE
  /\ gemini_data = PlainBag
  /\ validation_result = <<ProcessedJobData(LongBatchDone)>>
  /\ previous_status = "none"
  /\ raw_file_written = TRUE
  /\ ElsewhereIdle

\* runs on top of a store of about a window of records, and the rest of a
\* run that brings more than a window of records itself
InitLongRun == InitWindow \/ InLongRun

SpecLongRun == InitLongRun /\ [][Next]_vars

\* ------------------------------------------ create_blog_post step by step
\* Phase 3 with the publisher's wait for the editor taken apart: the part of
\* the loop body up to the wait, the wait itself ("while True: try: ...
\* click(); break; except: time.sleep(1)"), and the part after it.

\* the candidate at index i is done with the given outcome: the counters of
\* _publish_new_jobs move as in PublishItem and the loop goes on
EndCandidate(outcome) ==
  /\ published_count' = IF outcome = "published" THEN published_count + 1
                        ELSE published_count
  /\ publish_calls' = IF outcome = "no_html" THEN publish_calls
                      ELSE publish_calls + 1
  /\ html_failures' = IF outcome = "no_html" THEN html_failures + 1
                      ELSE html_failures
  /\ driver' \in IF outcome = "no_html" THEN {driver}
                 ELSE driver_after_post(outcome)
  /\ i' = i + 1
  /\ pc' = IF i' > Len(jobs_to_publish) THEN "cleanup" ELSE "publish_item"
  /\ published_through' =
       IF /\ pc' = "cleanup"
          /\ Len(jobs_to_publish) = PublishWindow
          /\ published_count' = Len(jobs_to_publish)
          /\ \A k \in 1..PublishWindow :
               jobs_to_publish[k].url = appended[Len(appended) + 1 - k]
       THEN Len(appended) ELSE published_through
  /\ post_pc' = "idle"
  /\ UNCHANGED <<scheduler, pool, request, employments, normalizers, previous_status,
                 raw_file_written, config, validator, store, run_no, phase1, phase2,
                 jobs_to_publish, result, phases, raw_at_start, proc_at_start,
                 api_calls, appended, api_log, interrupted, phase_error>>

\* generate_html and create_blog_post up to the wait (blogger_publisher.py
\* 63-111): the HTML is empty, the post fails or raises before the editor is
\* open, or the browser session is there and the wait begins
StartPost ==
  /\ pc = "publish_item"
  /\ post_pc = "idle"
  /\ i <= Len(jobs_to_publish)
  /\ \/ \E outcome \in {"no_html", "failed", "raise"} : EndCandidate(outcome)
     \/ /\ post_pc' = "editor_click"
        /\ driver' = TRUE
        /\ UNCHANGED <<scheduler, pool, request, employments, normalizers, previous_status,
                       raw_file_written, config, validator, store, pc, run_no, phase1,
                       phase2, i, phase3, result, phases, history, api_log,
                       interrupted, phase_error>>

\* one pass of the wait (lines 114-117): find_elements(...)[-1].click()
\* returns and the loop is left, or it raises (no such element yet: an
\* IndexError) and the bare except goes on to time.sleep(1)
EditorClick ==
  /\ pc = "publish_item"
  /\ post_pc = "editor_click"
  /\ post_pc' \in {"editor_ready", "editor_sleep"}
  /\ UNCHANGED <<scheduler, pool, request, employments, normalizers, previous_status,
                 raw_file_written, config, validator, store, pc, run_no, phase1, phase2,
                 i, phase3, result, phases, history, api_log, caller>>

\* time.sleep(1) returns and the loop starts its next pass (lines 118-119)
EditorSleep ==
  /\ pc = "publish_item"
  /\ post_pc = "editor_sleep"
  /\ post_pc' = "editor_click"
  /\ UNCHANGED <<scheduler, pool, request, employments, normalizers, previous_status,
                 raw_file_written, config, validator, store, pc, run_no, phase1, phase2,
                 i, phase3, result, phases, history, api_log, caller>>

\* create_blog_post after the wait (lines 121-164): the post is published,
\* or a browser command raises and "except Exception" returns False
FinishPost ==
  /\ pc = "publish_item"
  /\ post_pc = "editor_ready"
  /\ \E outcome \in {"published", "failed"} : EndCandidate(outcome)

NextPublisher ==
  \/ ScrapeUrls
  \/ ScrapeDetails
  \/ ScrapeSave
  \/ ProcessLoad
  \/ ProcessItem
  \/ PublishLoad
  \/ StartPost
  \/ EditorClick
  \/ EditorSleep
  \/ FinishPost
  \/ Cleanup

\* the orchestrator thread keeps running: every call it makes returns or
\* raises, and the statement after it is executed
PublisherFairness == WF_vars(NextPublisher)

SpecPublisherLive == Init /\ [][NextPublisher]_vars /\ PublisherFairness

\* ----------------------------------- the worker pool of scrape_job_urls
\* The head of _scrape_new_jobs step by step: the store is read, the pages
\* are submitted to a ThreadPoolExecutor, the worker threads fetch them, the
\* calling thread collects the results in the order of completion, leaves
\* the with block and subtracts the URLs the store had.

\* all_urls.update(urls) ignoring what was collected before
update_replace(all, urls) == urls

\* all_urls.update(urls)
update(all, urls) == all \cup urls

\* a loop over as_completed that ends with the first future
as_completed_first(fs, n) == n >= 1

\* the loop "for future in as_completed(future_to_page)" is over when it has
\* handled every future
as_completed_over(fs, n) == n = Len(fs)

\* a task is submitted and has not ended
PoolActive == \E p \in DOMAIN futures : futures[p].state = "submitted"

\* existing_urls = self.database.get_existing_urls()
GetExistingUrls ==
  /\ pc = "get_existing_urls"
  /\ \E ok \in ReadOK :
       /\ existing_urls' = get_existing_urls(ok)
       /\ faulty' = (faulty /\ ok)
  /\ pc' = "scrape_job_urls"
  /\ UNCHANGED <<scheduler, request, employments, normalizers, publisher, previous_status, raw_file_written, variant, write_faulty,
                 validator, store, run_no, phase1, phase2, i, phase3, result, phases,
                 history, api_log, caller, executor, futures, completed, taken, all_urls>>

\* scrape_job_urls up to the loop: _get_total_pages (the number the site
\* shows, which may be 0, or 1 when none is found), then one task per page is
\* submitted to a new executor.  An exception on the way leaves
\* scrape_job_urls and ends the phase with 0.
SubmitPages ==
  /\ pc = "scrape_job_urls"
  /\ \/ /\ pc' = "cleanup"
        /\ phase_error' = TRUE
        /\ UNCHANGED <<executor, futures>>
     \/ \E total_pages \in 0..MaxPages :
          /\ executor' = "running"
          /\ futures' = [p \in 1..total_pages |-> [state |-> "submitted", urls |-> {}]]
          /\ pc' = "as_completed"
          /\ UNCHANGED phase_error
  /\ UNCHANGED <<scheduler, request, employments, normalizers, publisher, previous_status, raw_file_written, config, validator, store,
                 run_no, phase1, phase2, i, phase3, result, phases, history, api_log,
                 driver, interrupted, existing_urls, completed, taken, all_urls>>

\* a worker thread runs _gather_job_urls_from_page(page): it returns the set
\* of URLs of the page (empty when the request failed) or raises
Worker(p) ==
  /\ p \in DOMAIN futures
  /\ futures[p].state = "submitted"
  /\ \/ \E urls \in SUBSET URLS :
          futures' = [futures EXCEPT ![p] = [state |-> "done", urls |-> urls]]
     \/ futures' = [futures EXCEPT ![p] = [state |-> "raised", urls |-> {}]]
  /\ completed' = Append(completed, p)
  /\ UNCHANGED <<scheduler, request, employments, normalizers, publisher, previous_status, raw_file_written, config, validator, store,
                 pc, run_no, phase1, phase2, i, phase3, result, phases, history, api_log,
                 caller, existing_urls, executor, taken, all_urls>>

Workers == \E p \in 1..MaxPages : Worker(p)

\* one iteration of the loop over as_completed, on the calling thread:
\* future.result() gives the set, or raises what the task raised, which is
\* caught and logged
Collect ==
  /\ pc = "as_completed"
  /\ taken < Len(completed)
  /\ LET future == futures[completed[taken + 1]]
     IN  all_urls' = IF future.state = "done" THEN update(all_urls, future.urls)
                     ELSE all_urls
  /\ taken' = taken + 1
  /\ UNCHANGED <<scheduler, request, employments, normalizers, publisher, previous_status, raw_file_written, config, validator, store,
                 pc, run_no, phase1, phase2, i, phase3, result, phases, history, api_log,
                 caller, existing_urls, executor, futures, completed>>

\* the loop is over and the with block is left, which shuts the executor
\* down
ExitPool ==
  /\ pc = "as_completed"
  /\ as_completed_over(futures, taken)
  /\ executor' = "shutdown"
  /\ pc' = "new_urls"
  /\ UNCHANGED <<scheduler, request, employments, normalizers, publisher, previous_status, raw_file_written, config, validator, store,
                 run_no, phase1, phase2, i, phase3, result, phases, history, api_log,
                 caller, existing_urls, futures, completed, taken, all_urls>>

\* scrape_job_urls returns all_urls, its futures are gone;
\* new_urls = all_urls - existing_urls
NewUrls ==
  /\ pc = "new_urls"
  /\ new_urls' = all_urls \ existing_urls
  /\ pending' = new_urls'
  /\ pc' = IF new_urls' = {} THEN "cleanup" ELSE "scrape_details"
  /\ futures' = << >>
  /\ completed' = << >>
  /\ taken' = 0
  /\ UNCHANGED <<scheduler, request, employments, normalizers, publisher, previous_status, raw_file_written, config, validator, store,
                 run_no, new_jobs, new_job_count, phase2, i, phase3, result, phases,
                 history, api_log, caller, existing_urls, executor, all_urls>>

\* the rest of the run, as in Run
AfterNewUrls ==
  \/ ScrapeDetails
  \/ ScrapeSave
  \/ ProcessLoad
  \/ ProcessItem
  \/ PublishLoad
  \/ PublishItem
  \/ Cleanup

NextPool ==
  \/ GetExistingUrls
  \/ SubmitPages
  \/ Workers
  \/ Collect
  \/ ExitPool
  \/ NewUrls
  \/ AfterNewUrls

\* run_pipeline has been entered and _scrape_new_jobs begins; the raw store
\* is empty or holds the record of URL 1
InitPool ==
  /\ variant \in {"job_pipeline", "main"}
  /\ faulty = FALSE
  /\ write_faulty = FALSE
  /\ jobs_file \in {<< >>, <<RawJobData(1, 0)>>}
  /\ processed_jobs_file = << >>
  /\ pc = "get_existing_urls"
  /\ run_no = 1
  /\ new_urls = {}
  /\ pending = {}
  /\ new_jobs = << >>
  /\ new_job_count = 0
  /\ unprocessed_jobs = << >>
  /\ i = 0
  /\ processed_count = 0
  /\ jobs_to_publish = << >>
  /\ published_count = 0
  /\ result = << >>
  /\ phases = <<"scrape">>
  /\ raw_at_start = jobs_file
  /\ proc_at_start = << >>
  /\ p2_log = << >>
  /\ extract_failures = 0
  /\ publish_calls = 0
  /\ html_failures = 0
  /\ api_log = << >>
  /\ api_calls = 0
  /\ appended = << >>
  /\ published_through = 0
  /\ driver = FALSE
  /\ interrupted = FALSE
  /\ phase_error = FALSE
  /\ gemini_data = PlainBag
  /\ validation_result = << >>
  /\ previous_status = "none"
  /\ raw_file_written = FALSE
  /\ ElsewhereIdle

\* one pipeline run with the worker pool of phase 1 spelled out
SpecPool == InitPool /\ [][NextPool]_vars

\* ------------------------------------------- one request to the source site
\* _make_request(url), one session.get and one sleep at a time.

\* the Retry-After header of a 429 response: not sent, a number of seconds,
\* or a date; the site may send any of them
RetryAfterHeaders == {"absent", "1", "30", "-1", "Wed, 21 Oct 2026 07:28:00 GMT"}

\* what session.get gives: a response with a status, a body and perhaps a
\* Retry-After header, or a RequestException
Responses ==
  {[kind |-> "response", status |-> 200, text |-> t, retry_after |-> "absent"] :
     t \in {"", "html"}}
  \cup {[kind |-> "response", status |-> 429, text |-> "", retry_after |-> h] :
          h \in RetryAfterHeaders}
  \cup {[kind |-> "response", status |-> 500, text |-> "", retry_after |-> "absent"],
        [kind |-> "RequestException", status |-> 0, text |-> "", retry_after |-> "absent"]}

\* int(response.headers.get("Retry-After", retry_delay)): <<n>>, or << >>
\* when int() raises ValueError
retry_after(r) ==
  IF r.retry_after = "absent" THEN <<retry_delay>>
  ELSE IF r.retry_after = "1" THEN <<1>>
  ELSE IF r.retry_after = "30" THEN <<30>>
  ELSE IF r.retry_after = "-1" THEN <<-1>>
  ELSE << >>

\* the argument of the sleep call that follows the response r
wait_time(r, n) ==
  IF r.kind = "RequestException" THEN retry_delay * (n + 1) ELSE retry_after(r)[1]

\* the rest of the program, which a request leaves alone
pipeline ==
  <<scheduler, pool, employments, normalizers, publisher, previous_status, raw_file_written, config, validator, store, pc,
    run_no, phase1, phase2, i, phase3, result, phases, history, api_log, caller>>

\* _make_request(url) is called
MakeRequest ==
  /\ request_pc \in {"idle", "returned", "raised"}
  /\ request_pc' = "get"
  /\ retries' = 0
  /\ response' = << >>
  /\ returned' = << >>
  /\ attempts' = 0
  /\ waited' = 0
  /\ UNCHANGED pipeline

\* session.get and what follows it up to the sleep call or the return: a 200
\* returns the body; a 429 reads Retry-After, where int() raises ValueError
\* on a date and sleep() raises ValueError on a negative number, neither of
\* which is caught; any other status returns None; a RequestException
\* returns None when retries has reached max_retries
SessionGet ==
  /\ request_pc = "get"
  /\ attempts' = attempts + 1
  /\ \E r \in Responses :
       /\ response' = r
       /\ IF r.kind = "RequestException"
            THEN IF retries < max_retries
                   THEN request_pc' = "sleep" /\ returned' = returned
                   ELSE request_pc' = "returned" /\ returned' = <<"None">>
          ELSE IF r.status = 200
            THEN request_pc' = "returned" /\ returned' = <<r.text>>
          ELSE IF r.status = 429
            THEN IF retry_after(r) = << >> \/ retry_after(r)[1] < 0
                   THEN request_pc' = "raised" /\ returned' = returned
                   ELSE request_pc' = "sleep" /\ returned' = returned
          ELSE request_pc' = "returned" /\ returned' = <<"None">>
  /\ UNCHANGED <<pipeline, retries, waited>>

\* sleep returns: the request is made again with retries + 1, or, after a
\* 429 with retries at max_retries, None is returned
Sleep ==
  /\ request_pc = "sleep"
  /\ waited' = waited + wait_time(response, retries)
  /\ IF retries < max_retries
       THEN /\ retries' = retries + 1
            /\ request_pc' = "get"
            /\ returned' = returned
       ELSE /\ request_pc' = "returned"
            /\ returned' = <<"None">>
            /\ retries' = retries
  /\ UNCHANGED <<pipeline, response, attempts>>

NextRequest == MakeRequest \/ SessionGet \/ Sleep

\* requests of a scraper whose pipeline is not running
SpecRequest == Init /\ [][NextRequest]_vars

\* ------------------------------------- a raw file with foreign entries
\* entries of the raw file that no RawJobData was written from: one without
\* scraped_at, one with a key that is no field, one without a URL
ForeignEntries ==
  {[url |-> u] : u \in URLS}
  \cup {[url |-> u, scraped_at |-> 0, legacy |-> 0] : u \in URLS}
  \cup {[scraped_at |-> 0]}

RawEntries == {RawJobData(u, 0) : u \in URLS} \cup ForeignEntries

\* the store under study: up to MaxEntries raw entries of any kind, and at
\* most one processed record
InitDecode ==
  /\ variant \in {"job_pipeline", "main"}
  /\ faulty = FALSE
  /\ write_faulty = FALSE
  /\ jobs_file \in UNION {[1..n -> RawEntries] : n \in 0..MaxEntries}
  /\ processed_jobs_file \in {<< >>} \cup {<<ProcessedJobData_numbered(u)>> : u \in URLS}
  /\ pc = "idle"
  /\ run_no = 0
  /\ new_urls = {}
  /\ pending = {}
  /\ new_jobs = << >>
  /\ new_job_count = 0
  /\ unprocessed_jobs = << >>
  /\ i = 0
  /\ processed_count = 0
  /\ jobs_to_publish = << >>
  /\ published_count = 0
  /\ result = << >>
  /\ phases = << >>
  /\ raw_at_start = jobs_file
  /\ proc_at_start = processed_jobs_file
  /\ p2_log = << >>
  /\ extract_failures = 0
  /\ publish_calls = 0
  /\ html_failures = 0
  /\ api_log = << >>
  /\ api_calls = 0
  /\ appended = << >>
  /\ published_through = 0
  /\ driver = FALSE
  /\ interrupted = FALSE
  /\ phase_error = FALSE
  /\ gemini_data = PlainBag
  /\ validation_result = << >>
  /\ previous_status = "none"
  /\ raw_file_written = FALSE
  /\ ElsewhereIdle

\* get_unprocessed_jobs() called once on the store outside a run; the list
\* it returns is kept in unprocessed_jobs
GetUnprocessedJobs ==
  /\ pc = "idle"
  /\ api_calls < 1
  /\ \E rok \in ReadOK, pok \in ReadOK :
       /\ unprocessed_jobs' = get_unprocessed_jobs(rok, pok)
       /\ faulty' = (faulty /\ rok /\ pok)
  /\ api_calls' = api_calls + 1
  /\ UNCHANGED <<elsewhere, previous_status, raw_file_written, variant, write_faulty,
                 validator, store, pc, run_no, phase1, processed_count, p2_log,
                 extract_failures, i, phase3, result, phases, raw_at_start, proc_at_start,
                 appended, published_through, api_log, caller>>

NextDecode == GetUnprocessedJobs

SpecDecode == InitDecode /\ [][NextDecode]_vars

\* ------------------------------------- the employment type of a record
\* the strings the extraction step may give as employmentType: the eight it
\* is asked to choose from, and others
EmploymentCodes == DOMAIN employment_to_app_type \cup {"FREELANCE", "full_time"}

\* the bags that differ from the well-formed one in the fields that decide
\* whether a record is built and in employmentType
EmploymentBags ==
  {b \in Bags : \A f \in Fields \ {"jobTitle", "orgName", "employmentType"} : b[f] = PlainBag[f]}

\* the validator is about to be called with any such bag
InitEmployment ==
  /\ variant = "job_pipeline"
  /\ faulty = FALSE
  /\ write_faulty = FALSE
  /\ jobs_file = <<RawJobData(1, 1)>>
  /\ processed_jobs_file = << >>
  /\ pc = "idle"
  /\ run_no = 1
  /\ new_urls = {}
  /\ pending = {}
  /\ new_jobs = << >>
  /\ new_job_count = 0
  /\ unprocessed_jobs = <<RawJobData(1, 1)>>
  /\ i = 1
  /\ processed_count = 0
  /\ jobs_to_publish = << >>
  /\ published_count = 0
  /\ result = << >>
  /\ phases = << >>
  /\ raw_at_start = << >>
  /\ proc_at_start = << >>
  /\ p2_log = << >>
  /\ extract_failures = 0
  /\ publish_calls = 0
  /\ html_failures = 0
  /\ api_log = << >>
  /\ api_calls = 0
  /\ appended = << >>
  /\ published_through = 0
  /\ driver = FALSE
  /\ interrupted = FALSE
  /\ phase_error = FALSE
  /\ gemini_data \in EmploymentBags
  /\ validation_result = << >>
  /\ previous_status = "none"
  /\ raw_file_written = FALSE
  /\ main_pc = "scheduling"
  /\ exit_code = << >>
  /\ gemini_api_key = "key"
  /\ existing_urls = {}
  /\ executor = "none"
  /\ futures = << >>
  /\ completed = << >>
  /\ taken = 0
  /\ all_urls = {}
  /\ request_pc = "idle"
  /\ retries = 0
  /\ response = << >>
  /\ returned = << >>
  /\ attempts = 0
  /\ waited = 0
  /\ employment_code \in IF gemini_data["employmentType"] = "str" THEN EmploymentCodes
                         ELSE {"FULL_TIME"}
  /\ employment = << >>
  /\ post_pc = "idle"
  /\ NormalizersIdle

\* validate_and_normalize(raw_job, enriched) is called; employment
\* keeps the employment_type and the app_type of the record it builds
ValidateEmployment ==
  /\ pc = "idle"
  /\ validation_result' = validate_and_normalize(unprocessed_jobs[i], gemini_data)
  /\ employment' =
       IF validation_result' = << >> THEN << >>
       ELSE <<[employment_type |-> employment_type(gemini_data, employment_code),
               app_type |-> app_type(employment_type(gemini_data, employment_code))]>>
  /\ pc' = "validated"
  /\ UNCHANGED <<scheduler, pool, request, normalizers, publisher, employment_code, previous_status,
                 raw_file_written, config, store, run_no, phase1, phase2, i, phase3,
                 result, phases, history, api_log, caller, gemini_data>>

NextEmployment == ValidateEmployment

SpecEmployment == InitEmployment /\ [][NextEmployment]_vars

\* --------------------------------- the normalizers of the validator
\* validate_and_normalize is about to be called for the one raw record of
\* the store, outside of the scheduler, with no pool and no request
AtValidator ==
  /\ variant = "job_pipeline"
  /\ faulty = FALSE
  /\ write_faulty = FALSE
  /\ jobs_file = <<RawJobData(1, 1)>>
  /\ processed_jobs_file = << >>
  /\ pc = "idle"
  /\ run_no = 1
  /\ new_urls = {}
  /\ pending = {}
  /\ new_jobs = << >>
  /\ new_job_count = 0
  /\ unprocessed_jobs = <<RawJobData(1, 1)>>
  /\ i = 1
  /\ processed_count = 0
  /\ jobs_to_publish = << >>
  /\ published_count = 0
  /\ result = << >>
  /\ phases = << >>
  /\ raw_at_start = << >>
  /\ proc_at_start = << >>
  /\ p2_log = << >>
  /\ extract_failures = 0
  /\ publish_calls = 0
  /\ html_failures = 0
  /\ api_log = << >>
  /\ api_calls = 0
  /\ appended = << >>
  /\ published_through = 0
  /\ driver = FALSE
  /\ interrupted = FALSE
  /\ phase_error = FALSE
  /\ gemini_data = PlainBag
  /\ validation_result = << >>
  /\ previous_status = "none"
  /\ raw_file_written = FALSE
  /\ main_pc = "scheduling"
  /\ exit_code = << >>
  /\ gemini_api_key = "key"
  /\ existing_urls = {}
  /\ executor = "none"
  /\ futures = << >>
  /\ completed = << >>
  /\ taken = 0
  /\ all_urls = {}
  /\ request_pc = "idle"
  /\ retries = 0
  /\ response = << >>
  /\ returned = << >>
  /\ attempts = 0
  /\ waited = 0
  /\ employment_code = "FULL_TIME"
  /\ employment = << >>
  /\ post_pc = "idle"

\* the program apart from the normalizers, which they leave alone
apart ==
  <<scheduler, pool, request, employments, publisher, previous_status, raw_file_written, config,
    validator, store, pc, run_no, phase1, phase2, i, phase3, result, phases, history,
    api_log, caller>>

\* what the extraction step may give as a salary: nothing, null, an int, a
\* float, a string that spells an integer, another string (0 stands for
\* "abc", 5 for "5.0"), a list
SalaryValues ==
  {Absent, SalaryValue("null", 0), SalaryValue("list", 0)}
  \cup {SalaryValue("int", n) : n \in {0, 3, 5}}
  \cup {SalaryValue("float", n) : n \in {37, -37}}
  \cup {SalaryValue("str_int", n) : n \in {5}}
  \cup {SalaryValue("str_other", n) : n \in {0, 5}}

InitSalary ==
  /\ AtValidator
  /\ minSalary \in SalaryValues
  /\ maxSalary \in SalaryValues
  /\ salary = << >>
  /\ JsonFieldsIdle
  /\ DeadlinesIdle
  /\ EnrichmentsIdle

\* min_salary, max_salary = self._normalize_salary(gemini_data)
NormalizeSalary ==
  /\ salary = << >>
  /\ salary' = <<normalize_salary(minSalary, maxSalary)>>
  /\ UNCHANGED <<apart, minSalary, maxSalary, json_fields, deadlines, enrichments>>

NextSalary == NormalizeSalary

SpecSalary == InitSalary /\ [][NextSalary]_vars

\* the strings of up to MaxChars characters
Strings == UNION {[1..n -> Chars] : n \in 0..MaxChars}

\* what the extraction step may give for a list-valued field: nothing,
\* null, or a list of up to MaxItems strings
FieldValues ==
  {Absent, [kind |-> "null", n |-> 0]}
  \cup {[kind |-> "list", n |-> l] : l \in UNION {[1..n -> Strings] : n \in 0..MaxItems}}

JsonFields == {"responsibilities", "skills", "qualifications", "jobBenefits"}

InitJsonField ==
  /\ AtValidator
  /\ SalariesIdle
  /\ field \in JsonFields
  /\ field_data \in FieldValues
  /\ json_field = << >>
  /\ DeadlinesIdle
  /\ EnrichmentsIdle

\* responsibilities = self._normalize_json_field(gemini_data.get(...)) and
\* its like, with the default for the benefits
NormalizeJsonField ==
  /\ json_field = << >>
  /\ json_field' = stored_json_field(field, field_data)
  /\ UNCHANGED <<apart, salaries, deadlines, enrichments, field, field_data>>

NextJsonField == NormalizeJsonField

SpecJsonField == InitJsonField /\ [][NextJsonField]_vars

\* the days of 2023 and of 2024, a leap year
Dates ==
  {[y |-> y, m |-> m, d |-> d] : y \in {2023, 2024}, m \in 1..12, d \in 1..31}
  \ {date \in [y : {2023, 2024}, m : 1..12, d : 1..31] : date.d > DaysInMonth(date.y, date.m)}

\* what the extraction step may give as deadLine: nothing or null (both
\* are None for the validator), the empty string, a date written as
\* "%d %b %Y", another string
DeadLines ==
  {[kind |-> "null", n |-> 0], [kind |-> "empty", n |-> 0], [kind |-> "str_other", n |-> 0],
   [kind |-> "date", n |-> [y |-> 2024, m |-> 2, d |-> 29]]}

InitDeadline ==
  /\ AtValidator
  /\ SalariesIdle
  /\ JsonFieldsIdle
  /\ \E date \in Dates, h \in {0, 23} :
       date_posted = [y |-> date.y, m |-> date.m, d |-> date.d, h |-> h]
  /\ deadLine \in DeadLines
  /\ valid_through = << >>
  /\ EnrichmentsIdle

\* deadline, valid_through = self._calculate_deadline(...); the clock may
\* show any day
CalculateDeadline ==
  /\ valid_through = << >>
  /\ \E now \in IF deadLine.kind = "str_other"
                  THEN {[y |-> 2024, m |-> 12, d |-> 15], [y |-> 2024, m |-> 1, d |-> 31]}
                  ELSE {[y |-> 2024, m |-> 1, d |-> 1]} :
       valid_through' = <<calculate_deadline(deadLine, date_posted, now)>>
  /\ UNCHANGED <<apart, salaries, json_fields, enrichments, date_posted, deadLine>>

NextDeadline == CalculateDeadline

SpecDeadline == InitDeadline /\ [][NextDeadline]_vars

\* ------------------------------------------- the enrichment of a record
\* the dicts the extraction step may hand to the enricher
ProcessedDatas ==
  {d \in [EnrichedFields -> {"absent", "null", "empty", "Acme", "UAE", "Dubai", "given"}] :
     /\ d["shortName"] \in {"absent", "empty", "Acme"}
     /\ d["jobCountry"] \in {"absent", "UAE"}
     /\ d["jobCity"] \in {"null", "Dubai"}
     /\ d["jobTitle"] = "given"
     /\ \A f \in {"streetAddress", "addressLocality", "addressRegion", "postalCode"} :
          d[f] \in {"absent", "empty", "given"}}

\* what _extract_address_components may return: each component found or
\* None
PlaceInfos ==
  [street_address : {"null", "Main St"}, locality : {"null", "Deira"},
   region : {"null", "Dubai"}, postal_code : {"null", "12345"}]

InitEnrich ==
  /\ AtValidator
  /\ SalariesIdle
  /\ JsonFieldsIdle
  /\ DeadlinesIdle
  /\ processed_data \in ProcessedDatas
  /\ place_info = [called |-> FALSE, info |-> << >>]
  /\ enriched = << >>

\* enrich_job_data(processed_data): get_place_info is called when the dict
\* has a short name and a country, and returns None (a request failed or
\* raised, or no candidate was found) or the address components
EnrichJobData ==
  /\ enriched = << >>
  /\ IF filled(get(processed_data, "shortName", "empty"))
        /\ filled(get(processed_data, "jobCountry", "empty"))
       THEN \E info \in {<< >>} \cup {<<a>> : a \in PlaceInfos} :
              /\ place_info' = [called |-> TRUE, info |-> info]
              /\ enriched' = <<enrich_job_data(processed_data, info)>>
       ELSE /\ place_info' = place_info
            /\ enriched' = <<enrich_job_data(processed_data, << >>)>>
  /\ UNCHANGED <<apart, salaries, json_fields, deadlines, processed_data>>

NextEnrich == EnrichJobData

SpecEnrich == InitEnrich /\ [][NextEnrich]_vars

\* ============================================================ properties
UniqueUrls(jobs) ==
  \A a, b \in DOMAIN jobs : a # b => jobs[a].url # jobs[b].url

JobIds(jobs) == {jobs[k].job_value_id : k \in DOMAIN jobs}

\* C1: after any sequence of pipeline runs and add_raw_jobs calls that starts
\* from an empty raw store, no two records of the raw store have the same URL.
C1_RawStoreOneRecordPerUrl == UniqueUrls(jobs_file)

\* C2: after any sequence of pipeline runs that starts from empty stores, no
\* two records of the processed store have the same URL.
C2_ProcessedStoreOneRecordPerUrl == UniqueUrls(processed_jobs_file)

\* a second run has appended a processed record to a store that already held
\* one, while a record of the first run was waiting to be processed
C2_Witness ==
  /\ run_no = 2
  /\ proc_at_start # << >>
  /\ Len(processed_jobs_file) > Len(proc_at_start)
  /\ Len(unprocessed_jobs) >= 2

\* C3: the job ids of the processed store are positive and pairwise
\* distinct, the oldest record has id 1, every record has an id greater than
\* all the records stored before it, and a step never removes or changes a
\* stored record (no id is reused or renumbered).
C3_JobIdsIncreaseFromOne ==
  /\ [](/\ \A k \in DOMAIN processed_jobs_file : processed_jobs_file[k].job_value_id >= 1
        /\ \A a, b \in DOMAIN processed_jobs_file :
             a < b => processed_jobs_file[a].job_value_id > processed_jobs_file[b].job_value_id
        /\ processed_jobs_file # << >> =>
             processed_jobs_file[Len(processed_jobs_file)].job_value_id = 1)
  /\ [][/\ Len(processed_jobs_file') >= Len(processed_jobs_file)
        /\ \A k \in DOMAIN processed_jobs_file :
             processed_jobs_file'[k + Len(processed_jobs_file') - Len(processed_jobs_file)]
               = processed_jobs_file[k]]_vars

\* three records have been stored, the last of them by a second run
C3_Witness ==
  /\ Len(processed_jobs_file) = 3
  /\ run_no = 2
  /\ Len(proc_at_start) \in {1, 2}

\* C4: every URL of the processed store is a URL of the raw store.
C4_ProcessedUrlHasRawRecord == Urls(processed_jobs_file) \subseteq Urls(jobs_file)

\* the raw store has grown after a record was processed
C4_Witness ==
  /\ processed_jobs_file # << >>
  /\ proc_at_start # << >>
  /\ Len(jobs_file) > Len(raw_at_start)

\* C5: when add_raw_jobs has just been called twice in a row with the same
\* batch, the raw store has no two entries with the same URL and the second
\* call returned 0.
C5_AddRawJobsTwice ==
  (/\ pc = "idle"
   /\ Len(api_log) >= 2
   /\ api_log[Len(api_log)].batch = api_log[Len(api_log) - 1].batch)
  => /\ UniqueUrls(jobs_file)
     /\ api_log[Len(api_log)].ret = 0

\* the unprocessed set as get_unprocessed_jobs returns it now
UnprocessedNow == get_unprocessed_jobs(TRUE, TRUE)

\* the log entries of the records phase 2 stored, in order
Assigned ==
  LET Stored(e) == e.stored
  IN  SelectSeq(p2_log, Stored)

\* the URLs phase 2 attempted and did not store
FailedUrls == {p2_log[k].url : k \in {n \in DOMAIN p2_log : ~p2_log[n].stored}}

\* the largest job id of the processed store when phase 2 began
Base == IF proc_at_start = << >> THEN 0 ELSE Max(JobIds(proc_at_start))

\* C6: the size of the unprocessed set grows in no step but the one in which
\* phase 1 appends the scraped records, and a step that processes a record
\* with success removes that record's URL, and nothing else, from the set.
C6_UnprocessedSetShrinks ==
  [][/\ Len(UnprocessedNow') > Len(UnprocessedNow) => pc = "scrape_save"
     /\ (pc = "process_item" /\ processed_count' = processed_count + 1) =>
          /\ unprocessed_jobs[i].url \in Urls(UnprocessedNow)
          /\ Urls(UnprocessedNow') = Urls(UnprocessedNow) \ {unprocessed_jobs[i].url}
          /\ Len(UnprocessedNow') = Len(UnprocessedNow) - 1]_vars

\* a second run has processed a record with success and left another open,
\* with records of the first run already in the processed store
C6_Witness ==
  /\ run_no = 2
  /\ proc_at_start # << >>
  /\ pc \in {"process_item", "publish_load"}
  /\ processed_count >= 1
  /\ Len(UnprocessedNow) >= 1

\* C7: the ids phase 2 assigns to the records that pass validation are
\* base+1, base+2, ... in the order of processing, base being the largest id
\* in the processed store when the phase began (0 for an empty store).
C7_IdsFollowBase ==
  \A k \in DOMAIN Assigned : Assigned[k].id = Base + k

\* a second run has assigned two ids on top of the ids of the first run
C7_Witness ==
  /\ run_no = 2
  /\ Base >= 1
  /\ Len(Assigned) >= 2

IsPrefix(s, t) == Len(s) <= Len(t) /\ s = SubSeq(t, 1, Len(s))

\* C8: a run enters its phases in the order scrape, process, publish, and a
\* run that found no new URL ends after phase 1 with the success result whose
\* counts are all 0, having entered no other phase and changed neither store.
C8_NoNewUrlsEndsRunWithSuccess ==
  /\ IsPrefix(phases, <<"scrape", "process", "publish">>)
  /\ (pc = "done" /\ new_urls = {}) =>
       /\ phases = <<"scrape">>
       /\ result = <<NoOpResult>>
       /\ jobs_file = raw_at_start
       /\ processed_jobs_file = proc_at_start

\* C9: in phase 2 a record that fails at a sub-step is not stored, the
\* records after it are attempted all the same (by the end of the phase
\* every record of the batch has been attempted, in order), the processed
\* store has grown by the stored records only, and the phase result is the
\* number of records that went through all sub-steps.
C9_FailureAffectsOneRecord ==
  /\ Len(p2_log) <= Len(unprocessed_jobs)
  /\ \A k \in DOMAIN p2_log : p2_log[k].url = unprocessed_jobs[k].url
  /\ ("process" \in Range(phases) /\ pc # "process_item") =>
       Len(p2_log) = Len(unprocessed_jobs)
  /\ FailedUrls \cap Urls(processed_jobs_file) = {}
  /\ Len(processed_jobs_file) = Len(proc_at_start) + Len(Assigned)
  /\ \A k \in DOMAIN Assigned :
       processed_jobs_file[Len(Assigned) + 1 - k].url = Assigned[k].url
  /\ processed_count = Len(Assigned)

\* phase 2 is over and a record that failed was followed by one that was
\* stored, and one that was stored by one that failed
C9_Witness ==
  /\ pc = "publish_load"
  /\ Len(p2_log) = 3
  /\ ~p2_log[1].stored
  /\ p2_log[2].stored
  /\ ~p2_log[3].stored
  /\ extract_failures = 1

\* the run of the end-to-end scenario: it started from empty stores, found 3
\* new URLs, fetched the details of all 3, and phase 2 met one record for
\* which extraction gave nothing
Scenario ==
  /\ pc = "done"
  /\ raw_at_start = << >>
  /\ proc_at_start = << >>
  /\ Cardinality(new_urls) = 3
  /\ Len(new_jobs) = 3
  /\ Len(p2_log) = 3
  /\ extract_failures = 1

\* C10 as stated: in the scenario the phase 1 result is 3, the phase 2 result
\* is 2, the unprocessed set is exactly the failed URL, and phase 3 makes
\* exactly 2 publish calls.
C10_ScenarioAsStated ==
  Scenario =>
    /\ new_job_count = 3
    /\ processed_count = 2
    /\ Cardinality(FailedUrls) = 1
    /\ Urls(UnprocessedNow) = FailedUrls
    /\ publish_calls = 2

\* C10 amended: when, in the scenario, the 2 records with a successful
\* extraction also pass validation, the phase 1 result is 3, the phase 2
\* result is 2, the unprocessed set is exactly the failed URL, phase 3 has
\* exactly 2 candidates and makes a publish call for each candidate whose
\* HTML was generated.
C10_ScenarioAmended ==
  (Scenario /\ Cardinality(FailedUrls) = 1) =>
    /\ new_job_count = 3
    /\ processed_count = 2
    /\ Urls(UnprocessedNow) = FailedUrls
    /\ Len(jobs_to_publish) = 2
    /\ publish_calls = 2 - html_failures

\* the scenario with both records stored and both published
C10_Witness ==
  /\ Scenario
  /\ Cardinality(FailedUrls) = 1
  /\ html_failures = 0
  /\ publish_calls = 2
  /\ published_count = 2

\* the URLs of the n records handed to add_processed_job last, newest first
MostRecent(n) ==
  LET m == IF Len(appended) < n THEN Len(appended) ELSE n
  IN  [k \in 1..m |-> appended[Len(appended) + 1 - k]]

\* phase 3 has selected its candidates
CandidatesSelected == phases # << >> /\ phases[Len(phases)] = "publish"

\* C11: in a run that has reached phase 3 the publish candidates are at most
\* 10 records, they are the (up to) 10 records appended to the processed
\* store last, newest first, and the published count is never above the
\* number of candidates.
C11_CandidatesAreTheTenMostRecent ==
  CandidatesSelected =>
    /\ Len(jobs_to_publish) <= PublishWindow
    /\ [k \in DOMAIN jobs_to_publish |-> jobs_to_publish[k].url] = MostRecent(PublishWindow)
    /\ published_count <= Len(jobs_to_publish)

\* the processed store holds more records than the window, the run has gone
\* through its 10 candidates, and some were published and some were not
C11_Witness ==
  /\ CandidatesSelected
  /\ Len(processed_jobs_file) > PublishWindow
  /\ Len(jobs_to_publish) = PublishWindow
  /\ pc = "done"
  /\ published_count \in 1..(PublishWindow - 1)

\* the positions in "appended" of records that a finished phase 3 is known
\* to have published with success
Published ==
  IF published_through = 0 THEN {}
  ELSE (published_through - PublishWindow + 1)..published_through

\* C12: the candidates of a run are the first 10 entries of the processed
\* store, whatever was published before; every record that a finished phase
\* 3 published with success and that is still among the 10 records appended
\* last is a candidate again; and when the phase is over every candidate has
\* been taken up (a publish call, unless its HTML came out empty).
C12_PublishedRecordsAreCandidatesAgain ==
  CandidatesSelected =>
    /\ jobs_to_publish = Head10(processed_jobs_file)
    /\ \A k \in Published :
         k > Len(appended) - PublishWindow => appended[k] \in Urls(jobs_to_publish)
    /\ pc \in {"cleanup", "done"} =>
         publish_calls + html_failures = Len(jobs_to_publish)

\* a second run has gone through its candidates; the first run had published
\* all 10 records of the store, the second run appended an 11th, so that 9
\* of the published records were candidates again and one fell out of the
\* window
C12_Witness ==
  /\ run_no = 2
  /\ CandidatesSelected
  /\ pc = "cleanup"
  /\ published_through = PublishWindow
  /\ Len(appended) = PublishWindow + 1
  /\ published_count < Len(jobs_to_publish)
  /\ publish_calls >= PublishWindow - 1

\* C13: a run returns only through the cleanup step, whatever ended it (the
\* early return, the end of phase 3, an exception or interrupt), a finished
\* run leaves the publisher without a browser session, and a release called
\* again on it changes nothing: not the publisher, not the result, not the
\* stores.
C13_CleanupOnEveryExitPath ==
  /\ [](pc = "done" => (~driver /\ close_driver(driver) = driver))
  /\ [][(pc' = "done" /\ pc # "done") => pc = "cleanup"]_vars
  /\ [][(pc = "done" /\ pc' = "done") =>
          (driver' = driver /\ result' = result /\ store' = store)]_vars

\* a run that had opened a session (it published a record) was ended by an
\* interrupt, and the release was called again afterwards
C13_Witness ==
  /\ pc = "done"
  /\ interrupted
  /\ published_count >= 1
  /\ api_calls >= 1
  /\ ~driver

\* the result of run_pipeline says status=error
ReportsError == result # << >> /\ result[1].status = "error"

\* C14: a run in which an exception was thrown outside the per-item catch
\* blocks (while listing URLs in phase 1, while loading the unprocessed set
\* in phase 2) and which no interrupt ended reports status=error.
C14_PhaseErrorReportedAsError ==
  (pc = "done" /\ phase_error /\ ~interrupted) => ReportsError

\* the run went through its three phases and no exception or interrupt ended
\* a phase or the run
AllPhasesCompleted ==
  /\ pc = "done"
  /\ phases = <<"scrape", "process", "publish">>
  /\ ~interrupted
  /\ ~phase_error

\* C15: what run_job_pipeline returns for a run has a status among success,
\* error and interrupted, and for a run whose three phases completed it is
\* the success result that carries the results of phases 1, 2 and 3.
C15_AggregateResult ==
  pc = "done" =>
    /\ run_job_pipeline.status \in {"success", "error", "interrupted"}
    /\ AllPhasesCompleted => run_job_pipeline = FullResult

\* the bag has the field as a non-empty string
has(f) == gemini_data[f] = "str"

\* the bag has no value for the field
lacks(f) == gemini_data[f] \in {"absent", "null", "empty"}

\* C16: validate_and_normalize returns no record for a bag that lacks the
\* job title or the organisation name, and returns a record for every bag
\* that has both, whatever its other fields are.
C16_RecordIffTitleAndOrg ==
  pc = "validated" =>
    /\ (lacks("jobTitle") \/ lacks("orgName")) => validation_result = << >>
    /\ (has("jobTitle") /\ has("orgName")) => validation_result # << >>

\* the id get_next_job_id would return now
NextId == get_next_job_id(TRUE)

\* C17: a record the validator returns has no job_value_id; phase 2 has
\* taken an id from the store only for records the validator returned (the
\* last record attempted was stored exactly when the validator returned it);
\* and the records that were rejected or failed at extraction, enrichment or
\* validation have taken no id: the next id of the store is the one after
\* the ids of the records stored so far.
C17_IdOnlyAfterValidation ==
  /\ validation_result # << >> => validation_result[1].job_value_id = 0
  /\ \A k \in DOMAIN p2_log : p2_log[k].id # 0 => p2_log[k].stored
  /\ p2_log # << >> =>
       /\ p2_log[Len(p2_log)].stored <=> validation_result # << >>
       /\ validation_result # << >> => validation_result[1].url = p2_log[Len(p2_log)].url
  /\ NextId = Base + Len(Assigned) + 1

\* phase 2 of a second run: a record failed after one was stored, and the
\* next id is still the one after the ids given out so far
C17_Witness ==
  /\ run_no = 2
  /\ proc_at_start # << >>
  /\ Len(p2_log) >= 2
  /\ p2_log[Len(p2_log) - 1].stored
  /\ ~p2_log[Len(p2_log)].stored
  /\ validation_result = << >>
  /\ NextId = Len(processed_jobs_file) + 1

\* every record of list s is an entry of list t
Kept(s, t) == \A k \in DOMAIN s : \E m \in DOMAIN t : t[m] = s[k]

\* C18: no step, the steps whose read of the raw store file fails included,
\* removes or changes a record of the raw store.
C18_RawRecordsKept == [][Kept(jobs_file, jobs_file')]_vars

\* C19: in runs in which a read of the processed store file may fail, the
\* processed store never holds two records with the same URL or the same
\* job id, and no step removes or changes one of its records.
C19_ProcessedRecordsKept ==
  /\ [](/\ UniqueUrls(processed_jobs_file)
        /\ Cardinality(JobIds(processed_jobs_file)) = Len(processed_jobs_file))
  /\ [][Kept(processed_jobs_file, processed_jobs_file')]_vars

\* C20: a step whose store write fails leaves both store files as they
\* were before the step.
C20_FailedWriteChangesNothing ==
  [][(write_faulty /\ ~write_faulty') =>
       (jobs_file' = jobs_file /\ processed_jobs_file' = processed_jobs_file)]_vars

\* the step is a direct call of add_raw_jobs (its entry joins api_log)
AddRawJobsCalled == Len(api_log') = Len(api_log) + 1

\* C21: a call of add_raw_jobs with the empty list returns 0, does not call
\* save_raw_jobs (no write of the raw store file) and leaves the content of
\* the file as it was, whatever the store holds.
C21_EmptyBatchWritesNothing ==
  [][(AddRawJobsCalled /\ api_log'[Len(api_log')].batch = << >>) =>
       /\ api_log'[Len(api_log')].ret = 0
       /\ ~raw_file_written'
       /\ jobs_file' = jobs_file]_vars

\* the positions of the orchestrator in each phase (a run starts with the
\* first step of phase 1)
InPhase1 == pc \in {"idle", "done", "scrape_details", "scrape_save"}

InPhase2 == pc \in {"process_load", "process_item"}

InPhase3 == pc \in {"publish_load", "publish_item"}

\* C22: a step of phase 1 leaves the processed store as it was, a step of
\* phase 2 leaves the raw store as it was, and a step of phase 3 leaves both
\* stores as they were.
C22_PhasesWriteOwnKind ==
  [][/\ InPhase1 => processed_jobs_file' = processed_jobs_file
     /\ InPhase2 => jobs_file' = jobs_file
     /\ InPhase3 => store' = store]_vars

\* a run on stores that held records has gone through its three phases:
\* phase 1 added raw records, phase 2 added a processed record, phase 3
\* published one
C22_Witness ==
  /\ pc = "cleanup"
  /\ phases = <<"scrape", "process", "publish">>
  /\ raw_at_start # << >>
  /\ Len(jobs_file) > Len(raw_at_start)
  /\ Len(processed_jobs_file) > Len(proc_at_start)
  /\ published_count >= 1

\* phase 1 of the current run has returned
Phase1Over == phases # << >> /\ pc \notin {"scrape_details", "scrape_save"}

\* C23: the raw store has grown by the phase-1 result of the run, and when
\* phase 1 has returned, every new URL has been tried (a failed fetch did
\* not stop the others), the fetched records are in the raw store and the
\* result is the number of URLs whose detail fetch succeeded.
C23_Phase1ResultCountsFetchedRecords ==
  /\ Len(jobs_file) = Len(raw_at_start) + new_job_count
  /\ Phase1Over =>
       /\ pending = {}
       /\ Urls(new_jobs) \subseteq Urls(jobs_file)
       /\ new_job_count = Len(new_jobs)

\* C24: once a KeyboardInterrupt has arrived, during a run or between runs,
\* no further run is started, and main returns with exit code 0 only.
C24_InterruptStopsScheduler ==
  /\ [](main_pc = "returned" => exit_code = <<0>>)
  /\ [][(interrupted \/ main_pc = "returned") => run_no' = run_no]_vars

\* a run has ended with status=error and main has not since been stopped
\* from the keyboard
ErrorRun(k) == pc = "done" /\ run_no = k /\ run_job_pipeline.status = "error"

\* C25: the step that ends a run, whatever the outcome, leaves main in its
\* scheduler loop; after a run that ended with status=error a further run
\* is started, unless the user stops the scheduler first; and after an
\* exception in the loop the loop goes on.
C25_SchedulerSurvivesErrorRun ==
  /\ [][(pc # "done" /\ pc' = "done") => (main_pc' = main_pc /\ main_pc' # "returned")]_vars
  /\ \A k \in 1..(MaxRuns - 1) : ErrorRun(k) ~> (run_no = k + 1 \/ exit_code = <<0>>)
  /\ (main_pc = "retry_wait") ~> (main_pc # "retry_wait")

\* a further run is in progress after a run that ended with status=error
C25_Witness ==
  /\ previous_status = "error"
  /\ pc = "process_item"
  /\ main_pc = "scheduling"

\* positions of the run at which the next step reads or writes a store file
StoreOperation ==
  pc \in {"get_existing_urls", "scrape_save", "process_load", "process_item", "publish_load"}

\* C26 as stated: every fetch task of the pool has ended before any store
\* operation of the run, so a store operation finds the executor shut down.
C26_StoreOperationsAfterPool == StoreOperation => executor = "shutdown"

\* C26: no store file is read or written while a fetch task is submitted and
\* not ended: the tasks run only while the calling thread is in the loop
\* over as_completed; the existing URLs are read before the executor is
\* created; every other store operation, and the loop that builds the
\* phase-1 result, come after the executor is shut down with no task left.
C26_NoStoreOperationWhilePoolRuns ==
  /\ PoolActive => (pc = "as_completed" /\ executor = "running")
  /\ pc = "get_existing_urls" => executor = "none"
  /\ (StoreOperation /\ pc # "get_existing_urls") => executor = "shutdown"
  /\ pc \in {"new_urls", "scrape_details", "scrape_save"} => executor = "shutdown"

\* the record fetched for a URL of a two-page scrape is about to be saved,
\* the store having been read before the pool ran
C26_Witness ==
  /\ pc = "scrape_save"
  /\ executor = "shutdown"
  /\ existing_urls = {1}
  /\ Cardinality(all_urls) >= 2
  /\ new_jobs # << >>

\* the URL sets of the tasks among the first n ended that returned
ReturnedSets(n) ==
  {futures[completed[k]].urls : k \in {j \in 1..n : futures[completed[j]].state = "done"}}

\* C27: whatever the order in which the page tasks end, the set that
\* scrape_job_urls accumulates is the union of the URL sets of the tasks
\* collected so far that returned, and when the loop is over it is the union
\* over all pages whose task did not raise.
C27_ResultIsUnionOfReturnedPages ==
  /\ pc = "as_completed" => all_urls = UNION ReturnedSets(taken)
  /\ pc = "new_urls" =>
       all_urls = UNION {futures[p].urls : p \in {q \in DOMAIN futures : futures[q].state = "done"}}

\* page 2 ended before page 1, one of them raised, the other returned two
\* URLs, and scrape_job_urls is about to return
C27_Witness ==
  /\ pc = "new_urls"
  /\ completed = <<2, 1>>
  /\ futures[2].state = "raised"
  /\ futures[1].state = "done"
  /\ Cardinality(all_urls) >= 2

\* C28: session.get is called at most max_retries + 1 times for a request,
\* whatever transport errors and 429 responses it meets; the request ends
\* by returning, never by raising: with the body when the last response was
\* a 200, and with None when max_retries + 1 attempts were made without one.
C28_RequestBoundedAndReturns ==
  /\ attempts <= max_retries + 1
  /\ request_pc # "raised"
  /\ request_pc = "returned" =>
       /\ response.kind = "response" /\ response.status = 200 => returned = <<response.text>>
       /\ ~(response.kind = "response" /\ response.status = 200) => returned = <<"None">>
  /\ (attempts = max_retries + 1 /\ request_pc \notin {"get", "sleep"}) =>
       request_pc = "returned"

\* a raw record as the store writes it
IsRawRecord(e) == e \in {RawJobData(u, 0) : u \in URLS}

\* the position in the raw file of the k-th raw record that has no
\* processed record
RECURSIVE OpenRecordAt(_, _)
OpenRecordAt(k, from) ==
  IF IsRawRecord(jobs_file[from]) /\ jobs_file[from].url \notin Urls(processed_jobs_file)
    THEN IF k = 1 THEN from ELSE OpenRecordAt(k - 1, from + 1)
    ELSE OpenRecordAt(k, from + 1)

OpenRecords ==
  {n \in DOMAIN jobs_file :
     IsRawRecord(jobs_file[n]) /\ jobs_file[n].url \notin Urls(processed_jobs_file)}

\* C29: a call of get_unprocessed_jobs returns, in the order of the raw
\* file, exactly the entries that are raw records and whose URL has no
\* processed record; entries that do not decode are left out, the call
\* returns, and neither store file changes.
C29_UnprocessedAreOpenDecodableInOrder ==
  api_calls > 0 =>
    /\ Len(unprocessed_jobs) = Cardinality(OpenRecords)
    /\ \A k \in DOMAIN unprocessed_jobs : unprocessed_jobs[k] = jobs_file[OpenRecordAt(k, 1)]
    /\ jobs_file = raw_at_start
    /\ processed_jobs_file = proc_at_start

\* the raw file holds a foreign entry between two raw records, both
\* returned
C29_Witness ==
  /\ api_calls > 0
  /\ Len(jobs_file) = 3
  /\ ~IsRawRecord(jobs_file[2])
  /\ unprocessed_jobs = <<jobs_file[1], jobs_file[3]>>
  /\ processed_jobs_file # << >>

\* the labels of the eight employment types
Labels ==
  {<<"FULL_TIME", "Full-time">>, <<"PART_TIME", "Part-time">>,
   <<"CONTRACTOR", "Consultancy">>, <<"TEMPORARY", "Temporary">>,
   <<"INTERN", "Internship">>, <<"VOLUNTEER", "Volunteer">>, <<"OTHER", "Other">>,
   <<"PER_DIEM", "Per-diem">>}

\* the bag names one of the eight employment types
KnownCode ==
  gemini_data["employmentType"] = "str" /\ \E l \in Labels : l[1] = employment_code

\* C30: a record built from a bag that names one of the eight employment
\* types carries that type and its label; a record built from a bag whose
\* employment type is unrecognized or missing carries the type FULL_TIME and
\* the label Full-time.
C30_EmploymentTypeNormalized ==
  employment # << >> =>
    /\ KnownCode => <<employment[1].employment_type, employment[1].app_type>> \in Labels
    /\ KnownCode => employment[1].employment_type = employment_code
    /\ ~KnownCode => /\ employment[1].employment_type = "FULL_TIME"
                     /\ employment[1].app_type = "Full-time"

\* the integer a salary value stands for, << >> when it is absent, null or
\* not numeric
Supplied(v) == IF v.kind \in {"absent", "null"} THEN << >> ELSE int(v)

\* C31: the minimum is the integer value of the supplied minimum, and 0 when
\* that is absent, null or not numeric; the maximum is the integer value of
\* the supplied maximum, and the minimum when that is absent, null or not
\* numeric.
C31_SalaryNormalized ==
  salary # << >> =>
    /\ salary[1][1] = IF Supplied(minSalary) = << >> THEN 0 ELSE Supplied(minSalary)[1]
    /\ salary[1][2] = IF Supplied(maxSalary) = << >> THEN salary[1][1] ELSE Supplied(maxSalary)[1]

\* the extraction step gave a native list for the field
NativeList == field_data.kind = "list"

\* C32 as stated: for each of the four fields and every list the extraction
\* step gives, the stored text read back as JSON is that list.
C32_StoredListReadsBack ==
  (json_field # << >> /\ NativeList) => json_loads(json_field) = <<field_data.n>>

\* C32: the stored text read back as JSON is the list the extraction step
\* gave, item by item in the same order, for responsibilities, skills and
\* qualifications, and for benefits when the list is not empty; for an empty
\* list of benefits the stored text reads back as the seven default
\* benefits.
C32_StoredListReadsBackButEmptyBenefits ==
  (json_field # << >> /\ NativeList) =>
    IF field = "jobBenefits" /\ field_data.n = << >>
      THEN json_loads(json_field) = <<default_benefits>>
      ELSE json_loads(json_field) = <<field_data.n>>

\* a list of two different items that hold a quote and a backslash has been
\* stored
C32_Witness ==
  /\ json_field # << >>
  /\ NativeList
  /\ Len(field_data.n) = 2
  /\ field_data.n[1] = <<"\"", "\\">>
  /\ field_data.n[2] = <<"a">>

\* the day after a calendar date
NextDay(date) ==
  IF date.d < DaysInMonth(date.y, date.m) THEN [date EXCEPT !.d = date.d + 1]
  ELSE IF date.m < 12 THEN [y |-> date.y, m |-> date.m + 1, d |-> 1]
  ELSE [y |-> date.y + 1, m |-> 1, d |-> 1]

RECURSIVE DaysLater(_, _)
DaysLater(date, k) == IF k = 0 THEN date ELSE DaysLater(NextDay(date), k - 1)

NoDeadline == deadLine.kind \in {"null", "empty"}

\* C33: without a deadline, valid_through is the 30th day after the
\* calendar date of date_posted, at 23:59:59 UTC; for a posting on 1
\* January 2024 it is 2024-01-31T23:59:59+00:00.
C33_DefaultValidThrough ==
  (valid_through # << >> /\ NoDeadline) =>
    /\ LET day == DaysLater([y |-> date_posted.y, m |-> date_posted.m, d |-> date_posted.d], 30)
       IN  valid_through[1] = [y |-> day.y, m |-> day.m, d |-> day.d,
                               h |-> 23, mi |-> 59, s |-> 59, tz |-> "+00:00"]
    /\ (date_posted.y = 2024 /\ date_posted.m = 1 /\ date_posted.d = 1) =>
         valid_through[1] = [y |-> 2024, m |-> 1, d |-> 31,
                             h |-> 23, mi |-> 59, s |-> 59, tz |-> "+00:00"]

\* the record of 1 January 2024, 00:00, has got its default deadline
C33_Witness ==
  /\ valid_through # << >>
  /\ deadLine.kind = "null"
  /\ date_posted = [y |-> 2024, m |-> 1, d |-> 1, h |-> 0]

AddressFields == {"streetAddress", "addressLocality", "addressRegion", "postalCode"}

\* C34: enrich_job_data returns a dict in every case; it is the dict it was
\* given when no lookup was made or the lookup gave nothing; otherwise it
\* differs from it at most in the four address fields, and in those only
\* where the given dict had nothing or the empty string.
C34_EnrichChangesOnlyEmptyAddressFields ==
  enriched # << >> =>
    /\ (~place_info.called \/ place_info.info = << >>) => enriched[1] = processed_data
    /\ \A f \in EnrichedFields :
         enriched[1][f] # processed_data[f] =>
           /\ f \in AddressFields
           /\ processed_data[f] \in {"absent", "null", "empty"}

\* a lookup found a street for a record that had its locality and no street
C34_Witness ==
  /\ enriched # << >>
  /\ place_info.called
  /\ place_info.info # << >>
  /\ processed_data["addressLocality"] = "given"
  /\ processed_data["streetAddress"] = "absent"
  /\ enriched[1]["streetAddress"] = "Main St"
  /\ enriched[1]["addressLocality"] = "given"

\* C35: without a configured extraction key main returns 1 and starts no
\* run, and main returns a code other than 0 in no other case.
KeyMissing == gemini_api_key \in {"", "your_gemini_api_key_here"}

NoRunStarted == run_no = 0 /\ pc = "idle" /\ phases = << >>

MissingKeyEndsStartup ==
  KeyMissing =>
    /\ NoRunStarted
    /\ main_pc \in {"startup", "configured", "returned"}
    /\ main_pc = "returned" => exit_code = <<1>>

C35_OnlyMissingKeyExitsNonZero ==
  /\ MissingKeyEndsStartup
  /\ exit_code \notin {<< >>, <<0>>} => KeyMissing

\* C35 as it holds: without a configured extraction key main returns 1 and
\* starts no run; main returns 1 as well when building the configuration or
\* setting up the logging raises; it returns no code other than 0 once it
\* is past the key check, whatever the runs do.
C35_NonZeroExitOnlyFromStartup ==
  /\ [](MissingKeyEndsStartup)
  /\ [](exit_code \notin {<< >>, <<0>>} => exit_code = <<1>> /\ NoRunStarted)
  /\ [][(exit_code = << >> /\ exit_code' \notin {<< >>, <<0>>})
          => (main_pc = "startup" \/ (main_pc = "configured" /\ KeyMissing))]_vars

C35_Witness == KeyMissing /\ main_pc = "returned" /\ exit_code = <<1>>

\* C36: in phase 2 the delay of two seconds lies between the extraction
\* calls of every two consecutive records, whatever came of the earlier one.
C36_DelayBetweenRecords ==
  \A k \in DOMAIN p2_log : k < Len(p2_log) => p2_log[k].slept

\* C37: a run whose phase 1 adds no record enters neither phase 2 nor
\* phase 3 and leaves both stores as they were, also while raw records wait
\* unprocessed; phase 2 and 3 are only entered by a run whose phase 1 added a
\* record, and that phase 2 takes up the records earlier runs left over.
PhaseOneAddedNothing == pc \in {"cleanup", "done"} /\ run_no > 0 /\ new_job_count = 0

LeftOver == {u \in Urls(raw_at_start) : u \notin Urls(proc_at_start)}

C37_NoNewRecordNoLaterPhase ==
  /\ PhaseOneAddedNothing =>
       /\ phases = <<"scrape">>
       /\ jobs_file = raw_at_start
       /\ processed_jobs_file = proc_at_start
  /\ pc \in {"process_load", "process_item", "publish_load", "publish_item"} =>
       new_job_count > 0
  /\ pc = "process_item" => LeftOver \subseteq Urls(unprocessed_jobs)

C37_Witness ==
  /\ PhaseOneAddedNothing
  /\ pc = "done"
  /\ LeftOver # {}

\* C38: from the start of phase 2 on, also in a run in which a write of the
\* processed store fails, the processed count of the run is the number of
\* records by which the processed store has grown since the phase began.
C38_ProcessedCountIsStoreGrowth ==
  (pc \in {"process_item", "publish_load", "publish_item", "cleanup", "done"}
     /\ Len(phases) >= 2 /\ phases[2] = "process") =>
    processed_count = Len(processed_jobs_file) - Len(proc_at_start)

\* C39: at phase 3 a record of the processed store is a publish candidate
\* exactly when fewer than 10 records stand before it in the store; a record
\* with 10 or more records stored after it is no candidate; and after a
\* phase 2 that stored more than 10 records the candidates are the 10 it
\* stored last.
IsCandidate(job) == \E j \in DOMAIN jobs_to_publish : jobs_to_publish[j] = job

LastStored(n) ==
  {Assigned[k].url : k \in {m \in DOMAIN Assigned : m > Len(Assigned) - n}}

C39_CandidateIffInsideWindow ==
  CandidatesSelected =>
    /\ \A k \in DOMAIN processed_jobs_file :
         IsCandidate(processed_jobs_file[k]) <=> k - 1 < PublishWindow
    /\ \A p \in DOMAIN appended :
         Len(appended) - p >= PublishWindow => appended[p] \notin Urls(jobs_to_publish)
    /\ processed_count > PublishWindow =>
         Urls(jobs_to_publish) = LastStored(PublishWindow)

\* a run has stored 11 records and gone through its candidates, and the
\* record it stored first is not among them
C39_Witness ==
  /\ CandidatesSelected
  /\ pc = "done"
  /\ processed_count > PublishWindow
  /\ published_count > 0
  /\ Assigned[1].url \notin Urls(jobs_to_publish)

\* C40: every pipeline run that has started comes to its end.
C40_RunTerminates == (pc \notin {"idle", "done"}) ~> (pc = "done")

====
